---------------------------- MODULE Spec2Model ----------------------------
(***************************************************************************)
(* Model of the sandboxed file-search server (src/utils/file_search.py,    *)
(* src/utils/path.py, src/utils/path_masker.py, src/server.py).            *)
(*                                                                         *)
(* Strings are sequences of one-character strings, so that the string      *)
(* operations of the code (startswith, rstrip, replace, split, join, sort) *)
(* are computed as the code computes them.  A directory tree is a function *)
(* from canonical absolute paths to nodes (directory, file, symlink).      *)
(***************************************************************************)
EXTENDS Integers, Sequences, FiniteSets, Bags, TLC

VARIABLES
    fs,              \* the filesystem: the name of its directory tree (see Tree)
    cwd,             \* working directory of the server process
    allowed_paths,   \* FileSearchTool.allowed_paths
    exclude_paths,   \* FileSearchTool.exclude_paths
    SHOW_HIDDEN,     \* FileSearchTool._SHOW_HIDDEN
    look_for,        \* PATH_MASKER_LOOK_FOR: the sensitive paths of config.json
    enabled,         \* PathMasker.enabled
    mode,            \* PathMasker.mode
    masked_map,      \* PathMasker.masked_map  (ordered dict: seq of <<key, value>>)
    reversed_map,    \* PathMasker.reversed_map (ordered dict: seq of <<key, value>>)
    pc,              \* position of the running call ("idle" between calls)
    call,            \* the running call: operation and arguments
    queue,           \* walk: worklist of <<directory, depth>>
    cur,             \* walk: <<directory, depth>> being processed
    entries,         \* walk: entries of cur not yet processed
    results,         \* walk: result list; batch calls: ordered dict of results
    count,           \* list_file_paths: number of entries emitted
    is_limit_exceeded,
    is_time_limit_exceeded,
    timeUp,          \* TRUE once the wall clock has passed the call's time budget
    fsTouched,       \* TRUE once the running call has accessed the filesystem
    ret,             \* outcome of the last finished call
    response         \* the reply of the server tool that made the call

vars == <<fs, cwd, allowed_paths, exclude_paths, SHOW_HIDDEN, look_for, enabled, mode,
          masked_map, reversed_map, pc, call, queue, cur, entries, results,
          count, is_limit_exceeded, is_time_limit_exceeded, timeUp, fsTouched, ret,
          response>>

cfgVars == <<fs, cwd, allowed_paths, exclude_paths, SHOW_HIDDEN, look_for, enabled, mode,
             masked_map, reversed_map>>

walkVars == <<queue, cur, entries, results, count, is_limit_exceeded,
              is_time_limit_exceeded, timeUp>>

-----------------------------------------------------------------------------
(* Strings *)

\* The characters used, in code-point order (Python compares strings by code point).
Alphabet ==
    << "\n", " ", "$", "(", ")", ".", "/", "0", "1", "2", "3", "4", "5", "6", "7",
       "8", "9", "A", "K", "M", "S", "[", "\\", "]", "^", "a", "b", "c", "d", "e", "f", "g", "h",
       "j", "k", "l", "m", "n", "o", "q", "r", "s", "t", "u", "v", "w", "x", "z", "~" >>

Ord(c) == CHOOSE i \in 1..Len(Alphabet) : Alphabet[i] = c

\* Python's None (no string: its one element is not a character)
None == <<"None">>

SEP == "/"

\* The value of F(0), with every operator argument inside F evaluated once.
\* (While it evaluates ENABLED, TLC evaluates an argument again at each of its
\* uses; an operator applied by the Bags module is evaluated the ordinary way.)
Once(F(_)) == CHOOSE v \in DOMAIN BagOfAll(F, SetToBag({0})) : TRUE

Min(a, b) == IF a < b THEN a ELSE b

Max(a, b) == IF a > b THEN a ELSE b

\* str.startswith
StartsWith(s, pre) ==
    Len(pre) <= Len(s) /\ SubSeq(s, 1, Len(pre)) = pre

\* the tail of s from (1-based) position i
Drop(s, i) == SubSeq(s, i, Len(s))

\* s < t in Python's string order
RECURSIVE StrLess(_, _)
StrLess(s, t) ==
    IF t = <<>> THEN FALSE
    ELSE IF s = <<>> THEN TRUE
    ELSE IF s[1] = t[1] THEN StrLess(Tail(s), Tail(t))
    ELSE Ord(s[1]) < Ord(t[1])

\* list.sort(): insertion of x into the sorted list l, after its equals
RECURSIVE InsertSorted(_, _)
InsertSorted(x, l) ==
    IF l = <<>> THEN <<x>>
    ELSE IF StrLess(x, l[1]) THEN <<x>> \o l
    ELSE <<l[1]>> \o InsertSorted(x, Tail(l))

\* the least string of a non-empty set
Least(S) == CHOOSE x \in S : \A y \in S : x = y \/ StrLess(x, y)

\* sorted(S) for a set of strings
RECURSIVE SortedSet(_)
SortedSet(S) ==
    Once(LAMBDA z : IF S = {} THEN <<>> ELSE <<Least(S)>> \o SortedSet(S \ {Least(S)}))

RECURSIVE Sorted(_)
Sorted(l) ==
    Once(LAMBDA z : IF l = <<>> THEN <<>>
                    ELSE InsertSorted(l[Len(l)], Sorted(SubSeq(l, 1, Len(l) - 1))))

\* str.rstrip(chars)
RECURSIVE RStrip(_, _)
RStrip(s, chars) ==
    IF s # <<>> /\ s[Len(s)] \in chars
    THEN RStrip(SubSeq(s, 1, Len(s) - 1), chars)
    ELSE s

\* str.lstrip(chars)
RECURSIVE LStrip(_, _)
LStrip(s, chars) ==
    IF s # <<>> /\ s[1] \in chars THEN LStrip(Tail(s), chars) ELSE s

\* str.strip()
Strip(s) == LStrip(RStrip(s, {" ", "\n"}), {" ", "\n"})

\* str.split(sep) for a one-character separator: never empty, keeps empty parts
RECURSIVE Split(_, _)
Split(s, sep) ==
    Once(LAMBDA z :
        IF s = <<>> THEN << <<>> >>
        ELSE LET r == Split(Tail(s), sep)
             IN  IF s[1] = sep THEN << <<>> >> \o r
                 ELSE << <<s[1]>> \o r[1] >> \o Tail(r))

\* sep.join(parts)
RECURSIVE Join(_, _)
Join(parts, sep) ==
    IF parts = <<>> THEN <<>>
    ELSE IF Len(parts) = 1 THEN parts[1]
    ELSE parts[1] \o <<sep>> \o Join(Tail(parts), sep)

\* "".join(parts)
RECURSIVE Concat(_)
Concat(parts) ==
    IF parts = <<>> THEN <<>> ELSE parts[1] \o Concat(Tail(parts))

\* the positions at which sub occurs in s
Occurrences(s, sub) ==
    { i \in 1..(Len(s) - Len(sub) + 1) : SubSeq(s, i, i + Len(sub) - 1) = sub }

\* str.replace(old, new, 1): the first occurrence only
Replace1(s, old, new) ==
    IF Len(old) > Len(s) \/ Occurrences(s, old) = {} THEN s
    ELSE LET i == CHOOSE j \in Occurrences(s, old) :
                      \A k \in Occurrences(s, old) : j <= k
         IN  SubSeq(s, 1, i - 1) \o new \o Drop(s, i + Len(old))

\* str(n) for a natural number
RECURSIVE Digits(_)
Digits(n) ==
    LET d == << <<"0">>, <<"1">>, <<"2">>, <<"3">>, <<"4">>,
                <<"5">>, <<"6">>, <<"7">>, <<"8">>, <<"9">> >>
    IN  IF n < 10 THEN d[n + 1] ELSE Digits(n \div 10) \o d[(n % 10) + 1]

SeqToSet(s) == { s[i] : i \in 1..Len(s) }

-----------------------------------------------------------------------------
(* The filesystem (pathlib / os.path as the code uses them) *)

Dir == [kind |-> "dir", target |-> <<>>, lines |-> <<>>]

File(ls) == [kind |-> "file", target |-> <<>>, lines |-> ls]

Link(t) == [kind |-> "link", target |-> t, lines |-> <<>>]

\* /d is the allowed root, /d/s an excluded subtree, /d/o a symlink that leaves
\* the sandbox, /d/z a broken symlink, /dx a directory outside the sandbox whose
\* name shares a string prefix with the root, /d/.h and /d/k/.g hidden entries;
\* /d/a and /d/k/c are text files, /d/k/m/e is an empty file
FS0 ==
    (<<"/">> :> Dir)
    @@ (<<"/", "d">> :> Dir)
    @@ (<<"/", "d", "/", ".", "h">> :> Dir)
    @@ (<<"/", "d", "/", ".", "h", "/", "q">> :> File(<<>>))
    @@ (<<"/", "d", "/", "a">> :>
           File(<<<<"b", "\n">>, <<"a", "\n">>, <<"c", "\n">>, <<"a", "\n">>, <<"e">>>>))
    @@ (<<"/", "d", "/", "k">> :> Dir)
    @@ (<<"/", "d", "/", "k", "/", ".", "g">> :> File(<<>>))
    @@ (<<"/", "d", "/", "k", "/", "c">> :> File(<<<<"a", "\n">>, <<"a", "c", "\n">>>>))
    @@ (<<"/", "d", "/", "k", "/", "m">> :> Dir)
    @@ (<<"/", "d", "/", "k", "/", "m", "/", "e">> :> File(<<>>))
    @@ (<<"/", "d", "/", "o">> :> Link(<<"/", "x">>))
    @@ (<<"/", "d", "/", "s">> :> Dir)
    @@ (<<"/", "d", "/", "s", "/", "b">> :> File(<<<<"a", "\n">>>>))
    @@ (<<"/", "d", "/", "z">> :> Link(<<"/", "n">>))
    @@ (<<"/", "d", "x">> :> Dir)
    @@ (<<"/", "d", "x", "/", "f">> :> File(<<>>))
    @@ (<<"/", "h">> :> Dir)
    @@ (<<"/", "w">> :> Dir)
    @@ (<<"/", "x">> :> Dir)
    @@ (<<"/", "x", "/", "f">> :> File(<<<<"a", "\n">>>>))

\* the same tree with a symlink to a file, a hidden symlink to a visible file, a
\* symlink to one of its own ancestors, a directory that holds nothing but a
\* symlink to itself, and a directory outside the sandbox that has the name of
\* a file in the allowed root
FS1 ==
    FS0
    @@ (<<"/", "d", "/", "l">> :> Link(<<"/", "d", "/", "a">>))
    @@ (<<"/", "d", "/", ".", "j">> :> Link(<<"/", "d", "/", "a">>))
    @@ (<<"/", "d", "/", "k", "/", "m", "/", "u">> :> Link(<<"/", "d", "/", "k">>))
    @@ (<<"/", "d", "/", "r">> :> Dir)
    @@ (<<"/", "d", "/", "r", "/", "v">> :> Link(<<"/", "d", "/", "r">>))
    @@ (<<"/", "x", "/", "a">> :> Dir)

\* the tree FS0 with one more file outside the sandbox
FS2 == FS0 @@ (<<"/", "x", "/", "a">> :> File(<<>>))

\* the directory tree named by fs.tree
Tree == CASE fs.tree = "FS0" -> FS0 [] fs.tree = "FS1" -> FS1 [] fs.tree = "FS2" -> FS2

\* the path string of a list of components under the root
PathOf(segs) == IF segs = <<>> THEN <<SEP>> ELSE <<SEP>> \o Join(segs, SEP)

\* the components of a path string: empty and "." components are dropped
\* (pathlib's normalisation), ".." is kept
Components(s) == SelectSeq(Split(s, SEP), LAMBDA c : c # <<>> /\ c # <<".">>)

\* Path.is_absolute()
IsAbsolute(s) == s # <<>> /\ s[1] = SEP

\* depth of symlink indirection followed by realpath
MaxLinkHops == 4

\* os.path.realpath: at is the resolved prefix (components), rest the components
\* still to resolve; symlinks are expanded, "." and ".." normalised, and the part
\* of the path that does not exist is kept as it is (strict=False)
RECURSIVE Walk(_, _, _)
Walk(at, rest, hops) ==
    IF rest = <<>> THEN at
    ELSE LET c == rest[1]
             next == at \o <<c>>
         IN  IF c = <<".", ".">>
             THEN Walk(IF at = <<>> THEN at ELSE SubSeq(at, 1, Len(at) - 1),
                       Tail(rest), hops)
             ELSE IF PathOf(next) \in DOMAIN Tree /\ Tree[PathOf(next)].kind = "link"
                     /\ hops > 0
             THEN LET t == Tree[PathOf(next)].target
                  IN  Walk(IF IsAbsolute(t) THEN <<>> ELSE at,
                           Components(t) \o Tail(rest), hops - 1)
             ELSE Walk(next, Tail(rest), hops)

\* str(Path(s).resolve(strict=False)): absolute, normalised, symlinks expanded
Resolve(s) ==
    Once(LAMBDA z : PathOf(Walk(IF IsAbsolute(s) THEN <<>> ELSE Components(cwd),
                                Components(s), MaxLinkHops)))

\* the node at the canonical path p is of one of these kinds
KindIn(p, kinds) == p \in DOMAIN Tree /\ Tree[p].kind \in kinds

\* Path.exists() / os.path.exists(): follows symlinks
Exists(s) == KindIn(Resolve(s), {"dir", "file"})

\* os.path.isdir(): follows symlinks
IsDir(s) == KindIn(Resolve(s), {"dir"})

\* os.path.isfile(): follows symlinks
IsFile(s) == KindIn(Resolve(s), {"file"})

\* the path of the entry named last in the real directory parent (components)
Entry(parent, last) == PathOf(parent \o <<last>>)

\* os.path.islink() of a path with components cs: the last one is not followed
IsLinkAt(s, cs) ==
    /\ cs # <<>>
    /\ cs[Len(cs)] # <<".", ".">>
    /\ KindIn(Entry(Walk(IF IsAbsolute(s) THEN <<>> ELSE Components(cwd),
                         SubSeq(cs, 1, Len(cs) - 1), MaxLinkHops),
                    cs[Len(cs)]),
              {"link"})

\* os.path.islink()
IsLink(s) == IsLinkAt(s, Components(s))

\* os.path.basename()
Basename(s) == LET parts == Split(s, SEP) IN parts[Len(parts)]

\* os.path.join(a, b) for a relative b
PathJoin(a, b) == IF a # <<>> /\ a[Len(a)] = SEP THEN a \o b ELSE a \o <<SEP>> \o b

\* the names of the entries whose path is the prefix d followed by one name
NamesUnder(d) ==
    { Drop(q, Len(d) + 1) :
        q \in { r \in DOMAIN Tree :
                  /\ Len(r) > Len(d)
                  /\ SubSeq(r, 1, Len(d)) = d
                  /\ \A i \in (Len(d) + 1)..Len(r) : r[i] # SEP } }

\* the names in directory s (os.listdir, as a set: the order is the system's)
ListNames(s) == NamesUnder(RStrip(Resolve(s), {SEP}) \o <<SEP>>)

\* os.path.relpath(path, start) for a path that is start or lies below it textually
RelPath(path, start) ==
    IF path = start THEN <<".">>
    ELSE Drop(path, Len(RStrip(start, {SEP})) + 2)

\* the home directory of the server's user
HOME == <<"/", "h">>

\* Path.expanduser()
ExpandUser(s) ==
    IF s = <<"~">> THEN HOME
    ELSE IF StartsWith(s, <<"~", SEP>>) THEN HOME \o Drop(s, 2)
    ELSE s

-----------------------------------------------------------------------------
(* src/utils/path.py *)

\* path_startswith without the trailing separator: a plain string prefix test
path_startswith_noSep(base, target) ==
    StartsWith(RStrip(Resolve(target), {"\\", SEP}), RStrip(Resolve(base), {"\\", SEP}))

\* path_startswith(base, target): target is base or lies inside it
path_startswith(base, target) ==
    LET base_str == RStrip(Resolve(base), {"\\", SEP}) \o <<SEP>>
        target_str == RStrip(Resolve(target), {"\\", SEP}) \o <<SEP>>
    IN  StartsWith(target_str, base_str)

\* cleanup_path_list keeping the paths that do not exist
cleanup_path_list_keepMissing(path_list) ==
    [i \in 1..Len(path_list) |-> Resolve(path_list[i])]

\* cleanup_path_list(path_list): the existing paths, canonicalised, in order
RECURSIVE cleanup_path_list(_)
cleanup_path_list(path_list) ==
    IF path_list = <<>> THEN <<>>
    ELSE (IF Exists(path_list[1]) THEN <<Resolve(path_list[1])>> ELSE <<>>)
         \o cleanup_path_list(Tail(path_list))

\* is_hidden taking its Windows branch on POSIX: the attribute lookup fails and
\* the function answers False
is_hidden_windowsBranch(filepath) == FALSE

\* is_hidden(filepath) on POSIX: the leaf name starts with a dot
is_hidden(filepath) == StartsWith(Basename(filepath), <<".">>)

-----------------------------------------------------------------------------
(* src/utils/file_search.py: path resolution *)

Msg(pre, path, post) == [pre |-> pre, path |-> path, post |-> post]

Return(v) == [kind |-> "return", val |-> v, exc |-> "", msg |-> Msg("", <<>>, "")]

Raise(e, m) == [kind |-> "raise", val |-> None, exc |-> e, msg |-> m]

\* no call has finished since the last request was taken: there is no outcome
NoOutcome == [kind |-> "none", val |-> None, exc |-> "", msg |-> Msg("", <<>>, "")]

\* the inputs that denote the default root
DefaultRootInputs == { <<>>, <<".">>, <<".", SEP>> }

\* the checks of lines 48-61 with the hidden-file check left out in non-strict mode
CheckedPath_laxHidden(real_str, strict) ==
    IF ~\E i \in 1..Len(allowed_paths) : path_startswith(allowed_paths[i], real_str)
    THEN IF ~strict THEN Return(None)
         ELSE Raise("PermissionError",
                    Msg("Access denied: ", real_str, " is outside allowed directories."))
    ELSE IF \E i \in 1..Len(exclude_paths) : path_startswith(exclude_paths[i], real_str)
    THEN IF ~strict THEN Return(None)
         ELSE Raise("PermissionError", Msg("Access denied: ", real_str, " is excluded."))
    ELSE IF strict /\ ~SHOW_HIDDEN /\ is_hidden(real_str)
    THEN Raise("PermissionError", Msg("Access denied: ", real_str, " is hidden."))
    ELSE Return(real_str)

\* lines 48-61: the whitelist, blacklist and hidden-file checks on the canonical path
CheckedPath(real_str, strict) ==
    IF ~\E i \in 1..Len(allowed_paths) : path_startswith(allowed_paths[i], real_str)
    THEN IF ~strict THEN Return(None)
         ELSE Raise("PermissionError",
                    Msg("Access denied: ", real_str, " is outside allowed directories."))
    ELSE IF \E i \in 1..Len(exclude_paths) : path_startswith(exclude_paths[i], real_str)
    THEN IF ~strict THEN Return(None)
         ELSE Raise("PermissionError", Msg("Access denied: ", real_str, " is excluded."))
    ELSE IF ~SHOW_HIDDEN /\ is_hidden(real_str)
    THEN IF ~strict THEN Return(None)
         ELSE Raise("PermissionError", Msg("Access denied: ", real_str, " is hidden."))
    ELSE Return(real_str)

\* CheckedCandidate without the test that the candidate exists
CheckedCandidate_noExistence(rp, candidate, strict) ==
    IF candidate = None
    THEN IF ~strict THEN Return(None)
         ELSE Raise("FileNotFoundError",
                    Msg("Path ", rp, " not found in allowed directories."))
    ELSE CheckedPath(Resolve(candidate), strict)

\* lines 39-46: the candidate must exist; it is then canonicalised and checked
CheckedCandidate(rp, candidate, strict) ==
    IF candidate = None \/ ~Exists(candidate)
    THEN IF ~strict THEN Return(None)
         ELSE Raise("FileNotFoundError",
                    Msg("Path ", rp, " not found in allowed directories."))
    ELSE CheckedPath(Resolve(candidate), strict)

\* lines 31-37: the first allowed root under which the relative path p exists
UnderRoots(p, hits) ==
    IF hits = {} THEN None
    ELSE Resolve(PathJoin(allowed_paths[CHOOSE i \in hits : \A j \in hits : i <= j], p))

\* lines 26-37: the candidate of the expanded path p
Candidate(p) ==
    IF IsAbsolute(p) THEN Resolve(p)
    ELSE UnderRoots(p, { i \in 1..Len(allowed_paths) : Exists(PathJoin(allowed_paths[i], p)) })

\* _resolve_path for the path rp that stands for the argument
ResolveFrom(rp, strict) == CheckedCandidate(rp, Candidate(ExpandUser(Strip(rp))), strict)

\* FileSearchTool._resolve_path(rel_path, strict)
resolve_path(rel_path, strict) ==
    Once(LAMBDA z :
        IF rel_path \in DefaultRootInputs /\ allowed_paths = <<>>
        THEN Raise("IndexError", Msg("list index out of range", <<>>, ""))
        ELSE ResolveFrom(IF rel_path \in DefaultRootInputs THEN allowed_paths[1] ELSE rel_path,
                         strict))

\* is_allowed_path reduced to its hidden-file test: the entry is not resolved
is_allowed_path_hiddenOnly(path) ==
    IF path = None \/ path = <<>> THEN FALSE
    ELSE ~(~SHOW_HIDDEN /\ is_hidden(path))

\* FileSearchTool.is_allowed_path(path)
is_allowed_path(path) ==
    IF path = None \/ path = <<>> THEN FALSE
    ELSE IF ~SHOW_HIDDEN /\ is_hidden(path) THEN FALSE
    ELSE resolve_path(path, TRUE).kind = "return"

-----------------------------------------------------------------------------
(* src/utils/path_masker.py *)

\* PATH_MASKER_MASK_TOKEN: the default of config.py
MASK_TOKEN == <<"M", "A", "S", "K">>

\* d[k] = v on an ordered dict: a key already present keeps its position
DictSet(d, k, v) ==
    IF \E i \in 1..Len(d) : d[i][1] = k
    THEN [i \in 1..Len(d) |-> IF d[i][1] = k THEN <<k, v>> ELSE d[i]]
    ELSE Append(d, <<k, v>>)

\* d.get(k, default)
DictGet(d, k, default) ==
    IF \E i \in 1..Len(d) : d[i][1] = k
    THEN d[CHOOSE i \in 1..Len(d) : d[i][1] = k][2]
    ELSE default

\* the masked value of the idx-th sensitive path: f"[{mask_token}{idx}]"
MaskOf(mask_token, idx) == <<"[">> \o mask_token \o Digits(idx) \o <<"]">>

\* the two maps after the first n sensitive paths have been entered
RECURSIVE MaskedMaps(_, _, _, _)
MaskedMaps(lf, mask_token, m, n) ==
    IF n = 0 THEN [masked_map |-> <<>>, reversed_map |-> <<>>]
    ELSE LET before == MaskedMaps(lf, mask_token, m, n - 1)
             masked == MaskOf(mask_token, n - 1)
             full_path == RStrip(Resolve(lf[n]), {SEP})
             key == IF m = "prefix" THEN full_path ELSE Basename(full_path)
         IN  [masked_map |-> DictSet(before.masked_map, key, masked),
              reversed_map |-> DictSet(before.reversed_map, masked, key)]

\* create_masked_map(look_for, mask_token, mode)
create_masked_map(lf, mask_token, m) == MaskedMaps(lf, mask_token, m, Len(lf))

\* sorted(items, key=lambda x: -len(x[0])): insertion of x after the items that
\* are not shorter (the sort is stable)
RECURSIVE InsertByLen(_, _)
InsertByLen(x, l) ==
    IF l = <<>> THEN <<x>>
    ELSE IF Len(x[1]) > Len(l[1][1]) THEN <<x>> \o l
    ELSE <<l[1]>> \o InsertByLen(x, Tail(l))

RECURSIVE LongestFirst(_)
LongestFirst(items) ==
    IF items = <<>> THEN <<>>
    ELSE InsertByLen(items[Len(items)], LongestFirst(SubSeq(items, 1, Len(items) - 1)))

\* the first item of an ordered dict that is a path containing target: its
\* index, 0 when there is none
FirstContaining(items, target) ==
    IF \E i \in 1..Len(items) : path_startswith(items[i][1], target)
    THEN CHOOSE i \in 1..Len(items) :
             /\ path_startswith(items[i][1], target)
             /\ \A j \in 1..(i - 1) : ~path_startswith(items[j][1], target)
    ELSE 0

\* lines 45-48 and 61-64: replace the key of the i-th item by its value, once
ReplaceByItem(path, items, i) ==
    IF i = 0 THEN path ELSE Replace1(path, items[i][1], items[i][2])

\* lines 51-55 and 67-71: map every segment through the dict
MapSegments(parts, d) == Join([i \in 1..Len(parts) |-> DictGet(d, parts[i], parts[i])], SEP)

\* lines 44-55: mask the absolute path
MaskAbs(abs_path, items) ==
    IF mode = "prefix"
    THEN ReplaceByItem(abs_path, items, FirstContaining(items, abs_path))
    ELSE MapSegments(Split(abs_path, SEP), masked_map)

\* PathMasker.mask_path(path)
mask_path(path) ==
    IF ~enabled THEN path
    ELSE MaskAbs(RStrip(Resolve(path), {SEP}), LongestFirst(masked_map))

\* PathMasker.unmask_path(path)
unmask_path(path) ==
    IF ~enabled THEN path
    ELSE IF mode = "prefix"
    THEN ReplaceByItem(path, reversed_map, FirstContaining(reversed_map, path))
    ELSE MapSegments(Split(path, SEP), reversed_map)

\* PathMasker.mask_multiple_paths(paths)
mask_multiple_paths(paths) == [i \in 1..Len(paths) |-> mask_path(paths[i])]

\* PathMasker.unmask_multiple_paths(paths)
unmask_multiple_paths(paths) == [i \in 1..Len(paths) |-> unmask_path(paths[i])]

-----------------------------------------------------------------------------
(* The environment: a filesystem and the configurations of config.json *)

\* ALLOWED_PATHS of config.json
AllowedConfigs == { << <<"/", "d">> >>, << <<"/", "n">>, <<"/", "d">> >> }

\* EXCLUDE_PATHS of config.json
ExcludeConfigs == { <<>>, << <<"/", "d", "/", "s">> >> }

\* FileSearchTool.__init__ and PathMasker.__init__ with masking disabled
InitTool(f, wd, allowed, excluded, hide) ==
    /\ fs = [tree |-> f]
    /\ cwd = wd
    /\ allowed_paths = cleanup_path_list(allowed)
    /\ exclude_paths = cleanup_path_list(excluded)
    /\ SHOW_HIDDEN = ~hide

\* PathMasker.__init__(look_for, mask_token, mode, enabled)
Masker(lf, mask_token, m, en) ==
    /\ look_for = lf
    /\ enabled = en
    /\ mode = m
    /\ masked_map = create_masked_map(lf, mask_token, m).masked_map
    /\ reversed_map = create_masked_map(lf, mask_token, m).reversed_map

\* the defaults of config.py: no sensitive path, masking disabled
NoMasker == Masker(<<>>, MASK_TOKEN, "prefix", FALSE)

\* no server tool is running
NoResponse ==
    [tool |-> "none", state |-> "none", success |-> FALSE, results |-> <<>>,
     message |-> Msg("", <<>>, "")]

NoCall ==
    /\ pc = "idle"
    /\ call = [op |-> "none"]
    /\ queue = <<>>
    /\ cur = <<>>
    /\ entries = <<>>
    /\ results = <<>>
    /\ count = 0
    /\ is_limit_exceeded = FALSE
    /\ is_time_limit_exceeded = FALSE
    /\ timeUp = FALSE
    /\ fsTouched = FALSE
    /\ ret = NoOutcome
    /\ response = NoResponse

-----------------------------------------------------------------------------
(* Path resolution as an operation *)

\* caller-supplied paths: absolute, relative, through symlinks, with "..",
\* with surrounding blanks, the default-root inputs and the home shorthand
ResolveInputs ==
    { <<>>, <<".">>, <<".", "/">>, <<"~">>,
      <<"/", "d">>, <<"/", "d", "/">>, <<"/", "d", "/", "a">>, <<" ", "/", "d", "/", "a", " ">>,
      <<"/", "d", "/", "k", "/", "m", "/", "e">>,
      <<"/", "d", "/", ".", "h">>, <<"/", "d", "/", ".", "h", "/", "q">>,
      <<"/", "d", "/", "s">>, <<"/", "d", "/", "s", "/", "b">>,
      <<"/", "d", "/", "k", "/", ".", ".", "/", "s", "/", "b">>,
      <<"/", "d", "/", "o">>, <<"/", "d", "/", "o", "/", "f">>, <<"/", "d", "/", "z">>,
      <<"/", "d", "/", ".", ".", "/", "x", "/", "f">>,
      <<"/", "d", "x">>, <<"/", "d", "x", "/", "f">>, <<"/", "x", "/", "f">>, <<"/", "n">>,
      <<"k", "/", "c">>, <<"o", "/", "f">>, <<"s", "/", "b">>, <<"w">> }

InitResolve ==
    /\ \E allowed \in AllowedConfigs, excluded \in ExcludeConfigs, hide \in BOOLEAN :
           InitTool("FS0", <<"/", "w">>, allowed, excluded, hide)
    /\ NoMasker
    /\ NoCall

\* one call of _resolve_path
ResolveCall ==
    /\ pc = "idle"
    /\ \E p \in ResolveInputs, strict \in BOOLEAN :
           /\ call' = [op |-> "_resolve_path", path |-> p, strict |-> strict]
           /\ pc' = "done"
           /\ ret' = resolve_path(p, strict)
    /\ UNCHANGED <<cfgVars, walkVars, fsTouched, response>>

\* the call has returned to its caller; the server waits for the next request
NextRequest ==
    /\ pc = "done"
    /\ response.state # "running"
    /\ pc' = "idle"
    /\ call' = [op |-> "none"]
    /\ ret' = NoOutcome
    /\ fsTouched' = FALSE
    /\ response' = NoResponse
    /\ UNCHANGED <<cfgVars, walkVars>>

NextResolve == ResolveCall \/ NextRequest

SpecResolve == InitResolve /\ [][NextResolve]_vars

-----------------------------------------------------------------------------
(* Containment, stated on path components *)

\* target is base or a descendant of base, component by component
Contains(base, target) ==
    LET b == Components(base)
        t == Components(target)
    IN  Len(b) <= Len(t) /\ SubSeq(t, 1, Len(b)) = b

\* p is inside the sandbox: under an allowed root and under no excluded path
InSandbox(p) ==
    /\ \E i \in 1..Len(allowed_paths) : Contains(allowed_paths[i], p)
    /\ \A i \in 1..Len(exclude_paths) : ~Contains(exclude_paths[i], p)

\* no component of p is a symlink: p is its own canonical form
IsCanonical(p) ==
    /\ IsAbsolute(p)
    /\ PathOf(Components(p)) = p
    /\ \A n \in 1..Len(Components(p)) :
           LET q == PathOf(SubSeq(Components(p), 1, n))
           IN  /\ Components(p)[n] # <<".", ".">>
               /\ ~(q \in DOMAIN Tree /\ Tree[q].kind = "link")

\* C1: whenever _resolve_path returns a path, in either strict mode, that path is
\* canonical (no symlink left in it), lies under an allowed root and under no
\* excluded path; and an absolute input whose real location is outside the
\* sandbox (a symlink leaving it included) is never resolved.
C1_Containment ==
    call.op = "_resolve_path" =>
        /\ (ret.kind = "return" /\ ret.val # None) =>
               IsCanonical(ret.val) /\ InSandbox(ret.val)
        /\ (IsAbsolute(call.path) /\ ~InSandbox(Resolve(call.path))) =>
               ~(ret.kind = "return" /\ ret.val # None)

\* a symlink inside the allowed root whose target is outside has been denied, as
\* has a path inside both the allowed root and the excluded subtree
C1_Witness ==
    /\ call.op = "_resolve_path"
    /\ call.path \in { <<"/", "d", "/", "o", "/", "f">>, <<"/", "d", "/", "s", "/", "b">> }
    /\ exclude_paths # <<>>
    /\ ret.kind = "raise"
    /\ ret.exc = "PermissionError"

-----------------------------------------------------------------------------
(* src/utils/file_search.py: list_file_paths, one step per loop iteration *)

\* the caller's show_hidden as the walk uses it: suppressed when the server hides
\* hidden files
ShowHidden(show_hidden) == IF ~SHOW_HIDDEN THEN FALSE ELSE show_hidden

\* largest count limit, depth bound and start index a caller passes in the model
MaxLimit == 2

MaxNest == 2

MaxStart == 1

\* a finite time budget in seconds (DEFAULT_TIME_LIMIT); -1 is "no limit"
TimeBudget == 10

\* the result dictionary of a finished walk
WalkResult(res, lim, tim) ==
    [results |-> res, is_limit_exceeded |-> lim, is_time_limit_exceeded |-> tim]

\* the walk's local variables are gone once it has returned
WalkCleared ==
    /\ queue' = <<>>
    /\ cur' = <<>>
    /\ entries' = <<>>
    /\ results' = <<>>
    /\ count' = 0
    /\ is_limit_exceeded' = FALSE
    /\ is_time_limit_exceeded' = FALSE
    /\ timeUp' = FALSE

\* lines 223-230: sort the results and return them with the two flags
ListReturn(res, lim, tim) ==
    /\ pc' = "done"
    /\ ret' = Return(WalkResult(Sorted(res), lim, tim))
    /\ WalkCleared

\* the call raises e: it ends without a result
CallRaises(e) ==
    /\ pc' = "done"
    /\ ret' = e
    /\ WalkCleared

\* line 213: the count limit has been reached
LimitReached(limit, n) == limit >= 0 /\ n >= limit

\* lines 177 and 200: may a directory at this depth be listed / have children queued
DepthExceeded(max_nested_level, depth) == max_nested_level >= 0 /\ depth > max_nested_level

\* the guard of line 200 without its "unlimited" case
MayDescend_noUnlimited(max_nested_level, depth) == depth < max_nested_level

MayDescend(max_nested_level, depth) == max_nested_level < 0 \/ depth < max_nested_level

\* lines 151-168: the call starts; base_dir is resolved and seeds the worklist
ListStart(base_dir, show_hidden, limit, time_limit, max_nested_level, search_mode, start_from, abs_path, file_only) ==
    \E r \in { IF base_dir = <<>>
                THEN Raise("ValueError", Msg("base_dir cannot be empty.", <<>>, ""))
                ELSE resolve_path(base_dir, TRUE) } :
        /\ pc = "idle"
        /\ call' = [op |-> "list_file_paths", base_dir |-> base_dir,
                    show_hidden |-> ShowHidden(show_hidden), arg_show_hidden |-> show_hidden,
                    limit |-> limit, time_limit |-> time_limit,
                    max_nested_level |-> max_nested_level, search_mode |-> search_mode,
                    start_from |-> start_from, abs_path |-> abs_path, file_only |-> file_only,
                    root |-> r.val]
        /\ fsTouched' = (base_dir # <<>>)
        /\ IF r.kind = "raise"
           THEN CallRaises(r)
           ELSE /\ queue' = << <<r.val, 0>> >>
                /\ results' = <<>>
                /\ count' = 0
                /\ is_limit_exceeded' = FALSE
                /\ is_time_limit_exceeded' = FALSE
                /\ timeUp' = FALSE
                /\ pc' = "pop"
                /\ UNCHANGED <<cur, entries, ret>>
        /\ UNCHANGED cfgVars

\* ListPop with start_from applied to the listing of every directory
ListPop_skipEverywhere ==
    /\ pc = "pop"
    /\ call.op = "list_file_paths"
    /\ IF queue = <<>>
       THEN ListReturn(results, is_limit_exceeded, is_time_limit_exceeded)
       ELSE LET item == IF call.search_mode = "bfs" THEN queue[1] ELSE queue[Len(queue)]
                rest == IF call.search_mode = "bfs" THEN Tail(queue)
                        ELSE SubSeq(queue, 1, Len(queue) - 1)
                current_dir == item[1]
                depth == item[2]
            IN  IF DepthExceeded(call.max_nested_level, depth) \/ ~Exists(current_dir)
                THEN /\ queue' = rest
                     /\ UNCHANGED <<cur, entries, results, count, is_limit_exceeded,
                                    is_time_limit_exceeded, timeUp, pc, ret>>
                ELSE IF ~IsDir(current_dir)
                THEN CallRaises(Raise("NotADirectoryError",
                                      Msg("[Errno 20] Not a directory: '", current_dir, "'")))
                ELSE /\ queue' = rest
                     /\ cur' = item
                     /\ entries' =
                            Drop(SortedSet({ e \in ListNames(current_dir) :
                                               call.show_hidden \/ ~is_hidden(e) }),
                                 IF call.start_from > 0
                                 THEN call.start_from + 1 ELSE 1)
                     /\ pc' = "entry"
                     /\ UNCHANGED <<results, count, is_limit_exceeded,
                                    is_time_limit_exceeded, timeUp, ret>>
    /\ UNCHANGED <<cfgVars, call, fsTouched, response>>

\* ListPop with the two ends of the worklist exchanged
ListPop_otherEnd ==
    /\ pc = "pop"
    /\ call.op = "list_file_paths"
    /\ IF queue = <<>>
       THEN ListReturn(results, is_limit_exceeded, is_time_limit_exceeded)
       ELSE LET item == IF call.search_mode = "dfs" THEN queue[1] ELSE queue[Len(queue)]
                rest == IF call.search_mode = "dfs" THEN Tail(queue)
                        ELSE SubSeq(queue, 1, Len(queue) - 1)
                current_dir == item[1]
                depth == item[2]
            IN  IF DepthExceeded(call.max_nested_level, depth) \/ ~Exists(current_dir)
                THEN /\ queue' = rest
                     /\ UNCHANGED <<cur, entries, results, count, is_limit_exceeded,
                                    is_time_limit_exceeded, timeUp, pc, ret>>
                ELSE IF ~IsDir(current_dir)
                THEN CallRaises(Raise("NotADirectoryError",
                                      Msg("[Errno 20] Not a directory: '", current_dir, "'")))
                ELSE /\ queue' = rest
                     /\ cur' = item
                     /\ entries' =
                            Drop(SortedSet({ e \in ListNames(current_dir) :
                                               call.show_hidden \/ ~is_hidden(e) }),
                                 IF current_dir = call.root /\ call.start_from > 0
                                 THEN call.start_from + 1 ELSE 1)
                     /\ pc' = "entry"
                     /\ UNCHANGED <<results, count, is_limit_exceeded,
                                    is_time_limit_exceeded, timeUp, ret>>
    /\ UNCHANGED <<cfgVars, call, fsTouched, response>>

\* ListPop removing the oldest directory from the worklist in both modes
ListPop_dfsDropsOldest ==
    /\ pc = "pop"
    /\ call.op = "list_file_paths"
    /\ IF queue = <<>>
       THEN ListReturn(results, is_limit_exceeded, is_time_limit_exceeded)
       ELSE LET item == IF call.search_mode = "bfs" THEN queue[1] ELSE queue[Len(queue)]
                rest == Tail(queue)
                current_dir == item[1]
                depth == item[2]
            IN  IF DepthExceeded(call.max_nested_level, depth) \/ ~Exists(current_dir)
                THEN /\ queue' = rest
                     /\ UNCHANGED <<cur, entries, results, count, is_limit_exceeded,
                                    is_time_limit_exceeded, timeUp, pc, ret>>
                ELSE IF ~IsDir(current_dir)
                THEN CallRaises(Raise("NotADirectoryError",
                                      Msg("[Errno 20] Not a directory: '", current_dir, "'")))
                ELSE /\ queue' = rest
                     /\ cur' = item
                     /\ entries' =
                            Drop(SortedSet({ e \in ListNames(current_dir) :
                                               call.show_hidden \/ ~is_hidden(e) }),
                                 IF current_dir = call.root /\ call.start_from > 0
                                 THEN call.start_from + 1 ELSE 1)
                     /\ pc' = "entry"
                     /\ UNCHANGED <<results, count, is_limit_exceeded,
                                    is_time_limit_exceeded, timeUp, ret>>
    /\ UNCHANGED <<cfgVars, call, fsTouched, response>>

\* lines 170-191: take the next directory off the worklist and list it
ListPop ==
    /\ pc = "pop"
    /\ call.op = "list_file_paths"
    /\ IF queue = <<>>
       THEN ListReturn(results, is_limit_exceeded, is_time_limit_exceeded)
       ELSE LET item == IF call.search_mode = "bfs" THEN queue[1] ELSE queue[Len(queue)]
                rest == IF call.search_mode = "bfs" THEN Tail(queue)
                        ELSE SubSeq(queue, 1, Len(queue) - 1)
                current_dir == item[1]
                depth == item[2]
            IN  IF DepthExceeded(call.max_nested_level, depth) \/ ~Exists(current_dir)
                THEN /\ queue' = rest
                     /\ UNCHANGED <<cur, entries, results, count, is_limit_exceeded,
                                    is_time_limit_exceeded, timeUp, pc, ret>>
                ELSE IF ~IsDir(current_dir)
                THEN CallRaises(Raise("NotADirectoryError",
                                      Msg("[Errno 20] Not a directory: '", current_dir, "'")))
                ELSE /\ queue' = rest
                     /\ cur' = item
                     /\ entries' =
                            Drop(SortedSet({ e \in ListNames(current_dir) :
                                               call.show_hidden \/ ~is_hidden(e) }),
                                 IF current_dir = call.root /\ call.start_from > 0
                                 THEN call.start_from + 1 ELSE 1)
                     /\ pc' = "entry"
                     /\ UNCHANGED <<results, count, is_limit_exceeded,
                                    is_time_limit_exceeded, timeUp, ret>>
    /\ UNCHANGED <<cfgVars, call, fsTouched, response>>

\* ListEntry queueing no directory when file_only is set
ListEntry_filesOnlyNoDescent ==
    /\ pc = "entry"
    /\ call.op = "list_file_paths"
    /\ IF entries = <<>>
       THEN /\ pc' = "pop"
            /\ UNCHANGED <<queue, cur, entries, results, count, is_limit_exceeded,
                           is_time_limit_exceeded, timeUp, ret>>
       ELSE \E full \in { PathJoin(cur[1], entries[1]) } :
            \E allowed \in { is_allowed_path(full) }, isdir \in { IsDir(full) } :
            \E enqueued \in { IF allowed /\ isdir /\ ~call.file_only
                                  /\ MayDescend(call.max_nested_level, cur[2])
                               THEN Append(queue, <<full, cur[2] + 1>>)
                               ELSE queue },
               emitted \in { /\ allowed
                             /\ ~(isdir /\ call.file_only)
                             /\ ~(call.file_only /\ ~IsFile(full)) },
               res \in { Append(results, IF call.abs_path THEN full
                                         ELSE RelPath(full, call.root)) } :
                IF ~emitted
                THEN /\ queue' = enqueued
                     /\ entries' = Tail(entries)
                     /\ UNCHANGED <<cur, results, count, is_limit_exceeded,
                                    is_time_limit_exceeded, timeUp, pc, ret>>
                ELSE IF LimitReached(call.limit, count + 1)
                THEN ListReturn(res, TRUE, FALSE)
                ELSE IF call.time_limit # -1 /\ timeUp
                THEN ListReturn(res, FALSE, TRUE)
                ELSE /\ queue' = enqueued
                     /\ entries' = Tail(entries)
                     /\ results' = res
                     /\ count' = count + 1
                     /\ UNCHANGED <<cur, is_limit_exceeded, is_time_limit_exceeded,
                                    timeUp, pc, ret>>
    /\ UNCHANGED <<cfgVars, call, fsTouched, response>>

\* lines 193-221: one entry of the directory being listed
ListEntry ==
    /\ pc = "entry"
    /\ call.op = "list_file_paths"
    /\ IF entries = <<>>
       THEN /\ pc' = "pop"
            /\ UNCHANGED <<queue, cur, entries, results, count, is_limit_exceeded,
                           is_time_limit_exceeded, timeUp, ret>>
       ELSE \E full \in { PathJoin(cur[1], entries[1]) } :
            \E allowed \in { is_allowed_path(full) }, isdir \in { IsDir(full) } :
            \E enqueued \in { IF allowed /\ isdir /\ MayDescend(call.max_nested_level, cur[2])
                               THEN Append(queue, <<full, cur[2] + 1>>)
                               ELSE queue },
               emitted \in { /\ allowed
                             /\ ~(isdir /\ call.file_only)
                             /\ ~(call.file_only /\ ~IsFile(full)) },
               res \in { Append(results, IF call.abs_path THEN full
                                         ELSE RelPath(full, call.root)) } :
                IF ~emitted
                THEN /\ queue' = enqueued
                     /\ entries' = Tail(entries)
                     /\ UNCHANGED <<cur, results, count, is_limit_exceeded,
                                    is_time_limit_exceeded, timeUp, pc, ret>>
                ELSE IF LimitReached(call.limit, count + 1)
                THEN ListReturn(res, TRUE, FALSE)
                ELSE IF call.time_limit # -1 /\ timeUp
                THEN ListReturn(res, FALSE, TRUE)
                ELSE /\ queue' = enqueued
                     /\ entries' = Tail(entries)
                     /\ results' = res
                     /\ count' = count + 1
                     /\ UNCHANGED <<cur, is_limit_exceeded, is_time_limit_exceeded,
                                    timeUp, pc, ret>>
    /\ UNCHANGED <<cfgVars, call, fsTouched, response>>

\* the wall clock passes the time budget of the running call
Tick ==
    /\ pc \in {"pop", "entry", "file"}
    /\ call.time_limit # -1
    /\ ~timeUp
    /\ timeUp' = TRUE
    /\ UNCHANGED <<cfgVars, call, pc, queue, cur, entries, results, count,
                   is_limit_exceeded, is_time_limit_exceeded, fsTouched, ret, response>>

\* directories a caller names as the root of a walk: the allowed root, a
\* subdirectory, a plain file, a directory outside the sandbox, the empty string
WalkRoots ==
    { <<"/", "d">>, <<"/", "d", "/", "k">>, <<"/", "d", "/", "a">>, <<"/", "x">>, <<>> }

ListCall ==
    /\ pc = "idle"
    /\ \E base_dir \in WalkRoots, show_hidden \in BOOLEAN, limit \in -1..MaxLimit,
          time_limit \in {-1, TimeBudget}, max_nested_level \in -1..MaxNest,
          search_mode \in {"bfs", "dfs"}, start_from \in 0..MaxStart,
          abs_path \in BOOLEAN, file_only \in BOOLEAN :
           ListStart(base_dir, show_hidden, limit, time_limit, max_nested_level,
                     search_mode, start_from, abs_path, file_only)
    /\ UNCHANGED response

InitList ==
    /\ \E hide \in BOOLEAN :
           InitTool("FS0", <<"/", "w">>, << <<"/", "d">> >>, << <<"/", "d", "/", "s">> >>, hide)
    /\ NoMasker
    /\ NoCall

NextList == ListCall \/ ListPop \/ ListEntry \/ Tick \/ NextRequest

SpecList == InitList /\ [][NextList]_vars

-----------------------------------------------------------------------------
(* Regular expressions (re.compile, Pattern.search): the patterns built from     *)
(* literal characters, ".", "\" escapes, groups, and the anchors "^" and "$"    *)

\* nesting depth of the groups after each character: a ")" without its "(" makes
\* the depth negative
RECURSIVE GroupDepth(_, _)
GroupDepth(p, d) ==
    IF p = <<>> \/ d < 0 THEN d
    ELSE IF p[1] = "\\" THEN GroupDepth(Drop(p, 3), d)
    ELSE IF p[1] = "(" THEN GroupDepth(Tail(p), d + 1)
    ELSE IF p[1] = ")" THEN GroupDepth(Tail(p), d - 1)
    ELSE GroupDepth(Tail(p), d)

\* re.compile(p) succeeds: the groups are balanced and no escape is left open
RegexValid(p) ==
    /\ GroupDepth(p, 0) = 0
    /\ ~(p # <<>> /\ p[Len(p)] = "\\" /\ (Len(p) = 1 \/ p[Len(p) - 1] # "\\"))

\* the pattern as a list of items to match: <<"lit", c>>, <<"any">>, <<"bol">>, <<"eol">>
RECURSIVE RegexItems(_)
RegexItems(p) ==
    IF p = <<>> THEN <<>>
    ELSE IF p[1] = "\\" THEN << <<"lit", p[2]>> >> \o RegexItems(Drop(p, 3))
    ELSE IF p[1] \in {"(", ")"} THEN RegexItems(Tail(p))
    ELSE IF p[1] = "." THEN << <<"any">> >> \o RegexItems(Tail(p))
    ELSE IF p[1] = "^" THEN << <<"bol">> >> \o RegexItems(Tail(p))
    ELSE IF p[1] = "$" THEN << <<"eol">> >> \o RegexItems(Tail(p))
    ELSE << <<"lit", p[1]>> >> \o RegexItems(Tail(p))

\* the items match s from position i on
RECURSIVE MatchAt(_, _, _)
MatchAt(items, s, i) ==
    IF items = <<>> THEN TRUE
    ELSE LET it == items[1]
         IN  IF it[1] = "bol" THEN i = 1 /\ MatchAt(Tail(items), s, i)
             ELSE IF it[1] = "eol"
             THEN /\ i = Len(s) + 1 \/ (i = Len(s) /\ s[i] = "\n")
                  /\ MatchAt(Tail(items), s, i)
             ELSE /\ i <= Len(s)
                  /\ IF it[1] = "any" THEN s[i] # "\n" ELSE s[i] = it[2]
                  /\ MatchAt(Tail(items), s, i + 1)

\* re.compile(p).search(s) finds a match
RegexSearch(p, s) == \E i \in 1..(Len(s) + 1) : MatchAt(RegexItems(p), s, i)

\* any(...) answering False whatever the patterns
AnySearch_never(patterns, s) == FALSE

\* any(r.search(s) for r in patterns)
AnySearch(patterns, s) == \E i \in 1..Len(patterns) : RegexSearch(patterns[i], s)

-----------------------------------------------------------------------------
(* src/utils/file_search.py: search_file_name, one step per loop iteration *)

\* the orders in which os.listdir may return the names: the order is the
\* system's, here ascending or descending
Listings(S) ==
    LET up == SortedSet(S)
    IN  { up, [i \in 1..Len(up) |-> up[Len(up) + 1 - i]] }

\* lines 263-292: the call starts: argument checks, pattern compilation, root
SearchStart(regex_pattern, exclude_regex_patterns, base_path, show_hidden, time_limit, max_nested_level, abs_path, search_mode) ==
    \E r \in { IF base_path = <<>>
                THEN Raise("ValueError", Msg("base_path cannot be empty.", <<>>, ""))
                ELSE IF ~Exists(base_path)
                THEN Raise("FileNotFoundError", Msg("Path ", base_path, " does not exist."))
                ELSE IF \E i \in 1..Len(regex_pattern) : ~RegexValid(regex_pattern[i])
                THEN Raise("ValueError",
                           Msg("Invalid regex pattern in regex_pattern", <<>>, ""))
                ELSE IF \E i \in 1..Len(exclude_regex_patterns) :
                            ~RegexValid(exclude_regex_patterns[i])
                THEN Raise("ValueError",
                           Msg("Invalid regex pattern in exclude_regex_patterns", <<>>, ""))
                ELSE resolve_path(base_path, TRUE) } :
        /\ pc = "idle"
        /\ call' = [op |-> "search_file_name", regex_pattern |-> regex_pattern,
                    exclude_regex_patterns |-> exclude_regex_patterns,
                    base_path |-> base_path,
                    show_hidden |-> ShowHidden(show_hidden), arg_show_hidden |-> show_hidden,
                    time_limit |-> time_limit, max_nested_level |-> max_nested_level,
                    abs_path |-> abs_path, search_mode |-> search_mode, root |-> r.val]
        /\ fsTouched' = (base_path # <<>>)
        /\ IF r.kind = "raise"
           THEN CallRaises(r)
           ELSE /\ queue' = << <<r.val, 0>> >>
                /\ results' = <<>>
                /\ count' = 0
                /\ is_limit_exceeded' = FALSE
                /\ is_time_limit_exceeded' = FALSE
                /\ timeUp' = FALSE
                /\ pc' = "pop"
                /\ UNCHANGED <<cur, entries, ret>>
        /\ UNCHANGED cfgVars

\* the result dictionary of search_file_name
SearchResult(res, tim) == [results |-> res, is_time_limit_exceeded |-> tim]

\* lines 294-311 and 339-345: take the next directory off the worklist
SearchPop ==
    /\ pc = "pop"
    /\ call.op = "search_file_name"
    /\ IF queue = <<>>
       THEN /\ pc' = "done"
            /\ ret' = Return(SearchResult(Sorted(results), FALSE))
            /\ WalkCleared
       ELSE LET item == IF call.search_mode = "bfs" THEN queue[1] ELSE queue[Len(queue)]
                rest == IF call.search_mode = "bfs" THEN Tail(queue)
                        ELSE SubSeq(queue, 1, Len(queue) - 1)
                current_dir == item[1]
            IN  IF AnySearch(call.exclude_regex_patterns, current_dir)
                   \/ ~is_allowed_path(current_dir)
                THEN /\ queue' = rest
                     /\ UNCHANGED <<cur, entries, results, count, is_limit_exceeded,
                                    is_time_limit_exceeded, timeUp, pc, ret>>
                ELSE IF call.time_limit # -1 /\ timeUp
                THEN /\ pc' = "done"
                     /\ ret' = Return(SearchResult(results, TRUE))
                     /\ WalkCleared
                ELSE IF ~Exists(current_dir)
                THEN /\ queue' = rest
                     /\ UNCHANGED <<cur, entries, results, count, is_limit_exceeded,
                                    is_time_limit_exceeded, timeUp, pc, ret>>
                ELSE IF ~IsDir(current_dir)
                THEN CallRaises(Raise("NotADirectoryError",
                                      Msg("[Errno 20] Not a directory: '", current_dir, "'")))
                ELSE /\ queue' = rest
                     /\ cur' = item
                     /\ entries' \in Listings(ListNames(current_dir))
                     /\ pc' = "entry"
                     /\ UNCHANGED <<results, count, is_limit_exceeded,
                                    is_time_limit_exceeded, timeUp, ret>>
    /\ UNCHANGED <<cfgVars, call, fsTouched, response>>

\* the match of lines 323-331 without the skip of hidden names
NameMatches_noHiddenSkip(patterns, name, show_hidden) ==
    \E i \in 1..Len(patterns) : RegexSearch(patterns[i], name)

\* lines 323-331: the entry name is matched by an include pattern (hidden names
\* are skipped unless hidden files are shown)
NameMatches(patterns, name, show_hidden) ==
    \E i \in 1..Len(patterns) :
        ~(~show_hidden /\ is_hidden(name)) /\ RegexSearch(patterns[i], name)

\* lines 314-336: one entry of the directory being searched
SearchEntry ==
    /\ pc = "entry"
    /\ call.op = "search_file_name"
    /\ IF entries = <<>>
       THEN /\ pc' = "pop"
            /\ UNCHANGED <<queue, cur, entries, results, count, is_limit_exceeded,
                           is_time_limit_exceeded, timeUp, ret>>
       ELSE \E name \in { entries[1] } :
            \E full_path \in { PathJoin(cur[1], name) } :
            \E allowed \in { is_allowed_path(full_path) }, isdir \in { IsDir(full_path) } :
                /\ entries' = Tail(entries)
                /\ results' =
                       IF allowed /\ ~isdir
                          /\ NameMatches(call.regex_pattern, name, call.show_hidden)
                       THEN Append(results, IF call.abs_path THEN full_path
                                            ELSE RelPath(full_path, call.root))
                       ELSE results
                /\ queue' =
                       IF allowed /\ isdir /\ MayDescend(call.max_nested_level, cur[2])
                       THEN Append(queue, <<full_path, cur[2] + 1>>)
                       ELSE queue
                /\ UNCHANGED <<cur, count, is_limit_exceeded, is_time_limit_exceeded,
                               timeUp, pc, ret>>
    /\ UNCHANGED <<cfgVars, call, fsTouched, response>>

\* include pattern lists a caller passes: by name, any name, a literal dot, an
\* anchored suffix, two patterns, two patterns matching the same names, and a
\* pattern that does not compile
IncludePatterns ==
    { << <<"c">> >>, << <<".">> >>, << <<"\\", ".">> >>, << <<"e", "$">>, <<"^", "a">> >>,
      << <<".">>, <<"c">> >>, << <<"(">> >> }

\* exclude pattern lists a caller passes (None becomes the empty list, line 274)
ExcludePatterns == { <<>>, << <<"k">> >>, << <<"m", "$">> >>, << <<"(">> >> }

SearchCall ==
    /\ pc = "idle"
    /\ \E regex_pattern \in IncludePatterns, exclude_regex_patterns \in ExcludePatterns,
          base_path \in WalkRoots \cup { <<"/", "n">> }, show_hidden \in BOOLEAN,
          time_limit \in {-1, TimeBudget}, max_nested_level \in -1..MaxNest,
          abs_path \in BOOLEAN, search_mode \in {"bfs", "dfs"} :
           SearchStart(regex_pattern, exclude_regex_patterns, base_path, show_hidden,
                       time_limit, max_nested_level, abs_path, search_mode)
    /\ UNCHANGED response

NextSearch == SearchCall \/ SearchPop \/ SearchEntry \/ Tick \/ NextRequest

SpecSearch == InitList /\ [][NextSearch]_vars

NextWalk == ListCall \/ ListPop \/ ListEntry \/ SearchCall \/ SearchPop \/ SearchEntry
            \/ Tick \/ NextRequest

SpecWalk == InitList /\ [][NextWalk]_vars

-----------------------------------------------------------------------------
(* What a walk is expected to visit, stated on the filesystem alone *)

\* the full path of a result entry of the running or finished walk
FullOf(r) == IF call.abs_path THEN r ELSE PathJoin(call.root, r)

\* p exists and its real location is inside the sandbox
Valid(p) == Exists(p) /\ InSandbox(Resolve(p))

\* a leaf name is hidden
HiddenName(p) == LET n == Basename(p) IN n # <<>> /\ n[1] = "."

\* p may be accessed: it is valid and, when hidden files are suppressed by the
\* configuration, neither its name nor the name of its real location is hidden
Accessible(p) ==
    Valid(p) /\ (~SHOW_HIDDEN => ~HiddenName(p) /\ ~HiddenName(Resolve(p)))

\* the names of dir that the walk does not suppress
Shown(dir, show) == { n \in ListNames(dir) : show \/ ~HiddenName(n) }

\* the number of shown names of dir that sort before n
Rank(dir, show, n) == Cardinality({ m \in Shown(dir, show) : StrLess(m, n) })

\* depth of the deepest directory chain the walk is followed to
MaxTreeDepth == 4

\* the entries a walk from root reaches at depth d (0: the children of root),
\* skipping the first skip shown names of root
RECURSIVE ReachAt(_, _, _, _)
ReachAt(root, show, skip, d) ==
    IF d = 0
    THEN { e \in { PathJoin(root, n) :
                     n \in { m \in Shown(root, show) : Rank(root, show, m) >= skip } } :
             Accessible(e) }
    ELSE UNION { { e \in { PathJoin(dir, n) : n \in Shown(dir, show) } : Accessible(e) } :
                 dir \in { x \in ReachAt(root, show, skip, d - 1) : IsDir(x) } }

\* the entries reached down to depth n; n = -1 is "at any depth"
ReachUpTo(root, show, skip, n) ==
    UNION { ReachAt(root, show, skip, d) : d \in 0..(IF n < 0 THEN MaxTreeDepth ELSE n) }

\* number of directory levels between root's children and the entry with this
\* root-relative path
LevelOf(rel) == Cardinality({ i \in 1..Len(rel) : rel[i] = SEP })

IsList == call.op = "list_file_paths"

IsSearch == call.op = "search_file_name"

\* the running call's walk returned a result
Returned == pc = "done" /\ ret.kind = "return"

\* the result list of the finished walk, as full paths
ReturnedPaths == { FullOf(ret.val.results[i]) : i \in 1..Len(ret.val.results) }

-----------------------------------------------------------------------------
(* Claims about the walks *)

\* C2: every entry list_file_paths or search_file_name has emitted, and every
\* directory on their worklist or being listed, exists and really lies inside
\* the sandbox (so a symlinked subdirectory that leaves the sandbox is neither
\* listed nor descended into); and a walk whose root is an allowed directory is
\* never aborted by a denied or broken entry: it returns a result.
C2_Revalidated ==
    (IsList \/ IsSearch) =>
        /\ pc \in {"pop", "entry"} =>
               /\ \A i \in 1..Len(queue) : Valid(queue[i][1])
               /\ \A i \in 1..Len(results) : Valid(FullOf(results[i]))
               /\ pc = "entry" => Valid(cur[1])
        /\ Returned => \A e \in ReturnedPaths : Valid(e)
        /\ (pc = "done" /\ call.root # None /\ IsDir(call.root)) => ret.kind = "return"

\* a walk of /d has gone past the escaping symlink o, the excluded s and the
\* broken symlink z and has returned entries found after them
C2_Witness ==
    /\ IsList \/ IsSearch
    /\ Returned
    /\ call.root = <<"/", "d">>
    /\ call.search_mode = "bfs"
    /\ <<"/", "d", "/", "k", "/", "c">> \in ReturnedPaths
    /\ <<"/", "d", "/", "o">> \notin ReturnedPaths

\* C3: when hidden files are suppressed by the configuration, no entry with a
\* hidden name is emitted by list_file_paths or search_file_name, whatever
\* show_hidden the caller passes; when they are not suppressed, list_file_paths
\* emits no hidden name with show_hidden false and, with show_hidden true, a
\* walk that no bound cut short returns the hidden entries it reaches.
C3_HiddenPolicy ==
    /\ ((IsList \/ IsSearch) /\ ~SHOW_HIDDEN) =>
           /\ \A i \in 1..Len(results) : ~HiddenName(results[i])
           /\ Returned => \A i \in 1..Len(ret.val.results) : ~HiddenName(ret.val.results[i])
    /\ (IsList /\ SHOW_HIDDEN /\ ~call.arg_show_hidden) =>
           /\ \A i \in 1..Len(results) : ~HiddenName(results[i])
           /\ Returned => \A i \in 1..Len(ret.val.results) : ~HiddenName(ret.val.results[i])
    /\ (IsList /\ SHOW_HIDDEN /\ call.arg_show_hidden /\ Returned
        /\ ~ret.val.is_limit_exceeded /\ ~ret.val.is_time_limit_exceeded) =>
           \A e \in ReachUpTo(call.root, TRUE, call.start_from, call.max_nested_level) :
               (HiddenName(e) /\ (call.file_only => IsFile(e))) => e \in ReturnedPaths

\* the caller asked for hidden files, the configuration suppresses them, and
\* the walk of a directory with hidden entries returned
C3_Witness ==
    /\ IsList \/ IsSearch
    /\ ~SHOW_HIDDEN
    /\ call.arg_show_hidden
    /\ Returned
    /\ call.root = <<"/", "d", "/", "k">>
    /\ ret.val.results # <<>>

\* C4: for every limit N >= 0, list_file_paths returns at most N entries, and
\* sets is_limit_exceeded whenever more than N eligible entries exist and the
\* time bound did not fire.
C4_AtMostLimit ==
    (IsList /\ Returned /\ call.limit >= 0) =>
        /\ Len(ret.val.results) <= call.limit
        /\ (~ret.val.is_time_limit_exceeded
            /\ Cardinality({ e \in ReachUpTo(call.root, SHOW_HIDDEN /\ call.arg_show_hidden,
                                             call.start_from, call.max_nested_level) :
                               call.file_only => IsFile(e) }) > call.limit)
           => ret.val.is_limit_exceeded

\* C5: with max_nested_level = N >= 0 no returned entry lies more than N
\* directory levels below the root's children (N = 0: only children of the root);
\* with max_nested_level = -1 a walk that no count or time bound cut short
\* returns exactly the accessible, non-suppressed entries reachable from the root.
C5_DepthBound ==
    (IsList /\ Returned) =>
        /\ call.max_nested_level >= 0 =>
               \A i \in 1..Len(ret.val.results) :
                   LevelOf(RelPath(FullOf(ret.val.results[i]), call.root))
                       <= call.max_nested_level
        /\ (call.max_nested_level = -1 /\ ~ret.val.is_limit_exceeded
            /\ ~ret.val.is_time_limit_exceeded) =>
               ReturnedPaths =
                   { e \in ReachUpTo(call.root, SHOW_HIDDEN /\ call.arg_show_hidden,
                                     call.start_from, -1) : call.file_only => IsFile(e) }

\* an unlimited walk of /d returned the entry two levels down
C5_Witness ==
    /\ IsList
    /\ Returned
    /\ call.max_nested_level = -1
    /\ ~ret.val.is_limit_exceeded
    /\ <<"/", "d", "/", "k", "/", "m", "/", "e">> \in ReturnedPaths

\* C9: search_file_name called with a pattern that does not compile fails with
\* the invalid-pattern error, and has not accessed the filesystem, for every
\* base_path given (existing or not).
C9_FailFast ==
    (IsSearch /\ pc = "done" /\ call.base_path # <<>>
     /\ \E i \in 1..Len(call.regex_pattern \o call.exclude_regex_patterns) :
            ~RegexValid((call.regex_pattern \o call.exclude_regex_patterns)[i])) =>
        /\ ret.kind = "raise"
        /\ ret.exc = "ValueError"
        /\ ret.msg.pre \in { "Invalid regex pattern in regex_pattern",
                             "Invalid regex pattern in exclude_regex_patterns" }
        /\ ~fsTouched


-----------------------------------------------------------------------------
(* Masking and unmasking as operations *)

\* PATH_MASKER.LOOK_FOR of config.json: one directory, a directory and its
\* subdirectory in both orders and repeated, the filesystem root, a symlink, a
\* relative path, nothing
LookForConfigs ==
    { << <<"/", "d">> >>,
      << <<"/", "d">>, <<"/", "d", "/", "k">> >>,
      << <<"/", "d", "/", "k">>, <<"/", "d">>, <<"/", "d", "/", "k">> >>,
      << <<"/">> >>,
      << <<"/">>, <<"/", "d">> >>,
      << <<"/", "d", "/", "o">> >>,
      << <<"k">> >>,
      <<>> }

\* paths handed to mask_path: the root, registered directories and entries below
\* them, a sibling sharing a string prefix, paths through a symlink, relative
\* paths, a trailing separator
MaskInputs ==
    { <<"/">>, <<"/", "d">>, <<"/", "d", "/">>, <<"/", "d", "/", "a">>,
      <<"/", "d", "/", "k">>, <<"/", "d", "/", "k", "/", "c">>,
      <<"/", "d", "/", "k", "/", "m", "/", "e">>,
      <<"/", "d", "x">>, <<"/", "d", "x", "/", "f">>,
      <<"/", "w">>, <<"/", "w", "/", "q">>, <<"/", "x", "/", "f">>,
      <<"/", "d", "/", "o", "/", "f">>, <<"k", "/", "c">>, <<>> }

\* paths a client hands to unmask_path: masked values with and without a suffix,
\* a masked segment, an unknown masked value, a real path
UnmaskInputs ==
    { MaskOf(MASK_TOKEN, 0), MaskOf(MASK_TOKEN, 0) \o <<"/", "a">>,
      MaskOf(MASK_TOKEN, 1) \o <<"/", "c">>, MaskOf(MASK_TOKEN, 2) \o <<"/", "m">>,
      <<"/">> \o MaskOf(MASK_TOKEN, 0) \o <<"/", "k">>,
      MaskOf(MASK_TOKEN, 0) \o <<"x", "/", "f">>, <<"/", "d", "/", "a">> }

InitMask ==
    /\ \E wd \in { <<"/", "w">>, <<"/", "d">> } :
           InitTool("FS0", wd, << <<"/", "d">> >>, << <<"/", "d", "/", "s">> >>, TRUE)
    /\ \E lf \in LookForConfigs, m \in {"prefix", "segment"}, en \in BOOLEAN :
           Masker(lf, MASK_TOKEN, m, en)
    /\ NoCall

\* mask_path(path); chain is the list of values that led to this argument
MaskStep(path, chain) ==
    /\ call' = [op |-> "mask_path", path |-> path, chain |-> chain]
    /\ pc' = "done"
    /\ ret' = Return(mask_path(path))
    /\ UNCHANGED <<cfgVars, walkVars, fsTouched, response>>

\* unmask_path(path)
UnmaskStep(path, chain) ==
    /\ call' = [op |-> "unmask_path", path |-> path, chain |-> chain]
    /\ pc' = "done"
    /\ ret' = Return(unmask_path(path))
    /\ UNCHANGED <<cfgVars, walkVars, fsTouched, response>>

MaskCall == pc = "idle" /\ \E path \in MaskInputs : MaskStep(path, <<>>)

UnmaskCall == pc = "idle" /\ \E path \in UnmaskInputs : UnmaskStep(path, <<>>)

\* the value mask_path returned is handed to unmask_path
UnmaskReturned ==
    /\ pc = "done"
    /\ call.op = "mask_path"
    /\ call.chain = <<>>
    /\ UnmaskStep(ret.val, <<call.path>>)

\* the value unmask_path returned for a masked path is handed to mask_path again
MaskReturned ==
    /\ pc = "done"
    /\ call.op = "unmask_path"
    /\ Len(call.chain) = 1
    /\ MaskStep(ret.val, Append(call.chain, call.path))

NextMask == MaskCall \/ UnmaskCall \/ UnmaskReturned \/ MaskReturned \/ NextRequest

SpecMask == InitMask /\ [][NextMask]_vars

\* the sensitive paths in canonical form
Registered == { Resolve(look_for[i]) : i \in 1..Len(look_for) }

\* s holds one of the masked values of the configuration
HasMask(s) == \E i \in 0..Len(look_for) : Occurrences(s, MaskOf(MASK_TOKEN, i)) # {}

\* C6: with masking enabled, in both modes, unmasking the masked form of a
\* canonical path under a sensitive path gives the path back, and masking the
\* unmasked form of a path with a masked value in it that mask_path produced
\* gives that path back.
C6_RoundTrip ==
    (enabled /\ pc = "done") =>
        /\ (call.op = "unmask_path" /\ Len(call.chain) = 1
            /\ IsCanonical(call.chain[1])
            /\ \E r \in Registered : Contains(r, call.chain[1]))
           => ret.val = call.chain[1]
        /\ (call.op = "mask_path" /\ Len(call.chain) = 2 /\ HasMask(call.chain[2]))
           => ret.val = call.chain[2]

\* the masked value of the sensitive path r: that of its last entry in look_for
MaskedAs(r) ==
    MaskOf(MASK_TOKEN,
           (CHOOSE i \in 1..Len(look_for) :
               /\ Resolve(look_for[i]) = r
               /\ \A j \in 1..Len(look_for) : Resolve(look_for[j]) = r => j <= i) - 1)

\* the part of the canonical path c below its ancestor r, with its leading
\* separator; empty when c is r
Below(r, c) ==
    LET rest == SubSeq(Components(c), Len(Components(r)) + 1, Len(Components(c)))
    IN  IF rest = <<>> THEN <<>> ELSE <<SEP>> \o Join(rest, SEP)

\* C7: in prefix mode mask_path replaces the longest sensitive path containing
\* the canonical form of its input by that path's masked value and keeps the
\* rest of the path; a path that no sensitive path contains (one that only
\* shares a string prefix with a sensitive path included) comes back without any
\* masked value in it.
C7_LongestPrefix ==
    (enabled /\ mode = "prefix" /\ pc = "done" /\ call.op = "mask_path"
     /\ call.chain = <<>>) =>
        LET c == Resolve(call.path)
            R == { r \in Registered : Contains(r, c) }
            longest == CHOOSE r \in R : \A q \in R : Len(q) <= Len(r)
        IN  IF R = {}
            THEN ~HasMask(ret.val)
            ELSE ret.val = MaskedAs(longest) \o Below(longest, c)


-----------------------------------------------------------------------------
(* src/utils/file_search.py: get_path_type, read_files, search_file_contents *)

\* values of a result dictionary: an error text, a file's text, match blocks
ErrorValue(m) == [kind |-> "error", msg |-> m, blocks |-> <<>>]

TextValue(text) == [kind |-> "text", msg |-> Msg("", <<>>, ""), blocks |-> <<text>>]

BlocksValue(blocks) == [kind |-> "blocks", msg |-> Msg("", <<>>, ""), blocks |-> blocks]

\* f.readlines() of the regular file at path p
ReadLines(p) == Tree[Resolve(p)].lines

\* lines 97-113: _sub_get_path_type(path)
sub_get_path_type(path) ==
    IF path = <<>> \/ ~Exists(path) THEN "not found"
    ELSE IF ~is_allowed_path(path) THEN "[Permission Denied]"
    ELSE IF IsDir(path) THEN "directory"
    ELSE IF IsLink(path) THEN "symbolic link"
    ELSE IF IsFile(path) THEN "file"
    ELSE "unknown"

\* FileSearchTool.get_path_type(paths)
get_path_type(paths) == [i \in 1..Len(paths) |-> <<paths[i], sub_get_path_type(paths[i])>>]

\* lines 373-384: the entry of read_files for the resolved path
ReadResolved(resolved) ==
    IF ~is_allowed_path(resolved)
    THEN ErrorValue(Msg("[Permission denied]", <<>>, ""))
    ELSE IF IsDir(resolved)
    THEN ErrorValue(Msg("[Error: [Errno 21] Is a directory: '", resolved, "']"))
    ELSE TextValue(Concat(ReadLines(resolved)))

\* lines 371-384: one file of read_files entered into the result dictionary
ReadOne(res, resolved) == DictSet(res, resolved, ReadResolved(resolved))

\* the result dictionary of read_files after the first n files
RECURSIVE ReadUpTo(_, _)
ReadUpTo(file_paths, n) ==
    IF n = 0 THEN <<>>
    ELSE ReadOne(ReadUpTo(file_paths, n - 1), resolve_path(file_paths[n], FALSE).val)

\* FileSearchTool.read_files(file_paths)
read_files(file_paths) == [results |-> ReadUpTo(file_paths, Len(file_paths))]

\* the context block without the lines after the match
Block_noTrailing(lines, idx, context_lines) ==
    Concat(SubSeq(lines, Max(0, idx - context_lines) + 1, Min(Len(lines), idx + 1)))

\* lines 455-457: the context block of the match on line idx (counted from 0)
Block(lines, idx, context_lines) ==
    Concat(SubSeq(lines, Max(0, idx - context_lines) + 1,
                  Min(Len(lines), idx + context_lines + 1)))

\* lines 453-458: the blocks of the matches among the first n lines
RECURSIVE MatchBlocks(_, _, _, _)
MatchBlocks(lines, patterns, context_lines, n) ==
    IF n = 0 THEN <<>>
    ELSE LET before == MatchBlocks(lines, patterns, context_lines, n - 1)
         IN  IF AnySearch(patterns, lines[n])
             THEN Append(before, Block(lines, n - 1, context_lines))
             ELSE before

\* lines 453-458: the blocks of all the matches in lines
AllBlocks(lines, patterns, context_lines) ==
    MatchBlocks(lines, patterns, context_lines, Len(lines))

\* lines 473-474: a file with matches gets an entry
WithMatches(res, abs_path, matches) ==
    IF matches # <<>> THEN DictSet(res, abs_path, BlocksValue(matches)) ELSE res

\* lines 438-474: one file of search_file_contents entered into the result dictionary
ContentsOne(res, abs_path, patterns, context_lines) ==
    Once(LAMBDA z :
        IF ~is_allowed_path(abs_path)
        THEN DictSet(res, abs_path, ErrorValue(Msg("[Permission denied]", <<>>, "")))
        ELSE IF IsDir(abs_path)
        THEN DictSet(res, abs_path,
                     ErrorValue(Msg("[Error: Is a directory. Please provide a file path.]",
                                    <<>>, "")))
        ELSE WithMatches(res, abs_path,
                         AllBlocks(ReadLines(abs_path), patterns, context_lines)))

\* the result dictionary of search_file_contents
ContentsResult(res, tim) == [results |-> res, is_time_limit_exceeded |-> tim]

\* largest number of context lines a caller passes in the model
MaxContext == 2

\* one call of get_path_type
PathTypeStart(paths) ==
    /\ pc = "idle"
    /\ call' = [op |-> "get_path_type", paths |-> paths]
    /\ ret' = Return(get_path_type(paths))
    /\ fsTouched' = (paths # <<>>)
    /\ pc' = "done"
    /\ UNCHANGED <<cfgVars, walkVars>>

\* one call of read_files
ReadFilesStart(file_paths) ==
    /\ pc = "idle"
    /\ call' = [op |-> "read_files", file_paths |-> file_paths]
    /\ ret' = Return(read_files(file_paths))
    /\ fsTouched' = (file_paths # <<>>)
    /\ pc' = "done"
    /\ UNCHANGED <<cfgVars, walkVars>>

\* lines 418-425: search_file_contents starts; the patterns are compiled
ContentsStart(file_paths, regex_patterns, context_lines, time_limit) ==
    /\ pc = "idle"
    /\ call' = [op |-> "search_file_contents", file_paths |-> file_paths,
                regex_patterns |-> regex_patterns, context_lines |-> context_lines,
                time_limit |-> time_limit]
    /\ fsTouched' = FALSE
    /\ IF \E i \in 1..Len(regex_patterns) : ~RegexValid(regex_patterns[i])
       THEN CallRaises(Raise("ValueError",
                             Msg("Invalid regex pattern in regex_pattern", <<>>, "")))
       ELSE /\ queue' = file_paths
            /\ results' = <<>>
            /\ pc' = "file"
            /\ UNCHANGED <<cur, entries, count, is_limit_exceeded, is_time_limit_exceeded,
                           timeUp, ret>>
    /\ UNCHANGED cfgVars

\* search_file_contents taking the files from the end of its list
ContentsFile_lastFirst ==
    /\ pc = "file"
    /\ call.op = "search_file_contents"
    /\ IF queue = <<>>
       THEN /\ pc' = "done"
            /\ ret' = Return(ContentsResult(results, FALSE))
            /\ WalkCleared
            /\ UNCHANGED fsTouched
       ELSE IF call.time_limit >= 0 /\ timeUp
       THEN /\ pc' = "done"
            /\ ret' = Return(ContentsResult(results, TRUE))
            /\ WalkCleared
            /\ UNCHANGED fsTouched
       ELSE /\ results' = ContentsOne(results, resolve_path(queue[Len(queue)], FALSE).val,
                                      call.regex_patterns, call.context_lines)
            /\ queue' = SubSeq(queue, 1, Len(queue) - 1)
            /\ fsTouched' = TRUE
            /\ UNCHANGED <<cur, entries, count, is_limit_exceeded, is_time_limit_exceeded,
                           timeUp, pc, ret>>
    /\ UNCHANGED <<cfgVars, call, response>>

\* search_file_contents never taking the next file off its list
ContentsFile_noAdvance ==
    /\ pc = "file"
    /\ call.op = "search_file_contents"
    /\ IF queue = <<>>
       THEN /\ pc' = "done"
            /\ ret' = Return(ContentsResult(results, FALSE))
            /\ WalkCleared
            /\ UNCHANGED fsTouched
       ELSE IF call.time_limit >= 0 /\ timeUp
       THEN /\ pc' = "done"
            /\ ret' = Return(ContentsResult(results, TRUE))
            /\ WalkCleared
            /\ UNCHANGED fsTouched
       ELSE /\ results' = ContentsOne(results, resolve_path(queue[1], FALSE).val,
                                      call.regex_patterns, call.context_lines)
            /\ queue' = queue
            /\ fsTouched' = TRUE
            /\ UNCHANGED <<cur, entries, count, is_limit_exceeded, is_time_limit_exceeded,
                           timeUp, pc, ret>>
    /\ UNCHANGED <<cfgVars, call, response>>

\* lines 427-484: the next file of search_file_contents, or its return
ContentsFile ==
    /\ pc = "file"
    /\ call.op = "search_file_contents"
    /\ IF queue = <<>>
       THEN /\ pc' = "done"
            /\ ret' = Return(ContentsResult(results, FALSE))
            /\ WalkCleared
            /\ UNCHANGED fsTouched
       ELSE IF call.time_limit >= 0 /\ timeUp
       THEN /\ pc' = "done"
            /\ ret' = Return(ContentsResult(results, TRUE))
            /\ WalkCleared
            /\ UNCHANGED fsTouched
       ELSE /\ results' = ContentsOne(results, resolve_path(queue[1], FALSE).val,
                                      call.regex_patterns, call.context_lines)
            /\ queue' = Tail(queue)
            /\ fsTouched' = TRUE
            /\ UNCHANGED <<cur, entries, count, is_limit_exceeded, is_time_limit_exceeded,
                           timeUp, pc, ret>>
    /\ UNCHANGED <<cfgVars, call, response>>

\* file lists a caller passes: a text file, two files, one file twice, an empty
\* file, a directory, files outside the sandbox, a relative path, a missing
\* file, no file
FileLists ==
    { << <<"/", "d", "/", "a">> >>,
      << <<"/", "d", "/", "a">>, <<"/", "d", "/", "k", "/", "c">> >>,
      << <<"/", "d", "/", "k", "/", "c">>, <<"/", "d", "/", "k", "/", "c">> >>,
      << <<"/", "d", "/", "k", "/", "m", "/", "e">> >>,
      << <<"/", "d", "/", "k">>, <<"/", "d", "/", "a">> >>,
      << <<"/", "d", "/", "s", "/", "b">>, <<"/", "x", "/", "f">>, <<"/", "d", "/", "a">> >>,
      << <<"k", "/", "c">> >>,
      << <<"/", "n">> >>,
      <<>> }

\* line patterns a caller passes: one letter, two patterns, an anchored line, any
\* character, a letter no line has, a pattern that does not compile, no pattern
ContentPatterns ==
    { << <<"a">> >>, << <<"b">>, <<"c">> >>, << <<"^", "e", "$">> >>, << <<".">> >>,
      << <<"z">> >>, << <<"(">> >>, <<>> }

PathTypeCall == pc = "idle" /\ \E paths \in FileLists : PathTypeStart(paths) /\ UNCHANGED response

ReadFilesCall ==
    pc = "idle" /\ \E file_paths \in FileLists : ReadFilesStart(file_paths) /\ UNCHANGED response

ContentsCall ==
    /\ pc = "idle"
    /\ \E file_paths \in FileLists, regex_patterns \in ContentPatterns,
          context_lines \in 0..MaxContext, time_limit \in {-1, TimeBudget} :
           ContentsStart(file_paths, regex_patterns, context_lines, time_limit)
    /\ UNCHANGED response

NextBatch == PathTypeCall \/ ReadFilesCall \/ ContentsCall \/ ContentsFile \/ Tick
             \/ NextRequest

SpecBatch == InitList /\ [][NextBatch]_vars


\* the indices of the lines that an include pattern matches (counted from 1)
MatchedLines(lines, patterns) == { i \in 1..Len(lines) : AnySearch(patterns, lines[i]) }

\* the k-th smallest element of a set of numbers
Nth(M, k) == CHOOSE i \in M : Cardinality({ j \in M : j < i }) = k - 1

\* the value stored under key k in an ordered dict (the dict has the key)
ValueAt(d, k) == d[CHOOSE i \in 1..Len(d) : d[i][1] = k][2]

HasKey(d, k) == \E i \in 1..Len(d) : d[i][1] = k

IsContents == call.op = "search_file_contents"

\* C10: when search_file_contents has gone through all its files, every readable
\* file among them with lines L[1..n] has no key in the result when no line
\* matches an include pattern, and otherwise has exactly one block per matched
\* line, in increasing line order, the block of line i being the concatenation
\* of the lines from max(1, i - c) to min(n, i + c); overlapping blocks are
\* neither merged nor dropped.
C10_ContextBlocks ==
    (IsContents /\ Returned /\ ~ret.val.is_time_limit_exceeded) =>
        \A n \in 1..Len(call.file_paths) :
            LET f == call.file_paths[n]
                lines == Tree[f].lines
                M == MatchedLines(lines, call.regex_patterns)
                c == call.context_lines
            IN  (IsAbsolute(f) /\ IsCanonical(f) /\ Accessible(f) /\ IsFile(f)) =>
                    IF M = {} THEN ~HasKey(ret.val.results, f)
                    ELSE /\ HasKey(ret.val.results, f)
                         /\ ValueAt(ret.val.results, f).kind = "blocks"
                         /\ Len(ValueAt(ret.val.results, f).blocks) = Cardinality(M)
                         /\ \A k \in 1..Cardinality(M) :
                                ValueAt(ret.val.results, f).blocks[k] =
                                    Concat(SubSeq(lines, Max(1, Nth(M, k) - c),
                                                  Min(Len(lines), Nth(M, k) + c)))

\* a 5-line file with matches on lines 2 and 4 has been searched with one line
\* of context and has two overlapping blocks, lines 1-3 and lines 3-5
C10_Witness ==
    /\ IsContents /\ Returned /\ ~ret.val.is_time_limit_exceeded
    /\ call.context_lines = 1
    /\ call.file_paths # <<>>
    /\ call.file_paths[1] = <<"/", "d", "/", "a">>
    /\ HasKey(ret.val.results, <<"/", "d", "/", "a">>)
    /\ Len(Tree[<<"/", "d", "/", "a">>].lines) = 5
    /\ MatchedLines(Tree[<<"/", "d", "/", "a">>].lines, call.regex_patterns) = {2, 4}
    /\ ValueAt(ret.val.results, <<"/", "d", "/", "a">>).blocks =
           << <<"b", "\n", "a", "\n", "c", "\n">>, <<"c", "\n", "a", "\n", "e">> >>

-----------------------------------------------------------------------------
(* src/server.py: the tools; paths are unmasked on the way in, masked on the way out *)

\* a tool has called the engine and waits for its outcome
Running(tool) ==
    [tool |-> tool, state |-> "running", success |-> FALSE, results |-> <<>>,
     message |-> Msg("", <<>>, "")]

\* return_message(results=None, success=False, response_message=str(e))
Failure(tool, m) ==
    [tool |-> tool, state |-> "replied", success |-> FALSE, results |-> <<>>, message |-> m]

\* return_message(results=..., success=True, response_message=...)
Success(tool, res, m) ==
    [tool |-> tool, state |-> "replied", success |-> TRUE, results |-> res, message |-> m]

\* f"{pre}{n}{noun}{'s' if n > 1 else ''}{post}"
CountMsg(pre, n, noun, post) ==
    Msg(pre \o ToString(n) \o noun \o (IF n > 1 THEN "s" ELSE "") \o post, <<>>, "")

\* {masker.mask_path(k): v for k, v in results.items()}, the first n items
RECURSIVE MaskKeys(_, _)
MaskKeys(d, n) ==
    IF n = 0 THEN <<>> ELSE DictSet(MaskKeys(d, n - 1), mask_path(d[n][1]), d[n][2])

\* mask_path(None) with masking enabled: Path(None) raises TypeError
MaskedDict(tool, d, m) ==
    IF enabled /\ HasKey(d, None)
    THEN Failure(tool, Msg("expected str, bytes or os.PathLike object, not NoneType",
                           <<>>, ""))
    ELSE Success(tool, MaskKeys(d, Len(d)), m)

\* the reply of a tool to the engine outcome r
Reply(tool, r) ==
    IF r.kind = "raise" THEN Failure(tool, r.msg)
    ELSE CASE tool = "get_allowed_paths" ->
                  Success(tool, mask_multiple_paths(r.val),
                          Msg("Allowed path retrieved successfully.", <<>>, ""))
           [] tool = "get_path_type" ->
                  Success(tool,
                          [i \in 1..Len(r.val) |-> <<mask_path(r.val[i][1]), r.val[i][2]>>],
                          CountMsg("", Len(r.val), " path type", " retrieved successfully."))
           [] tool = "list_file_paths" ->
                  Success(tool, mask_multiple_paths(r.val.results),
                          CountMsg(IF r.val.is_limit_exceeded THEN "File limit exceeded. "
                                   ELSE "",
                                   Len(r.val.results), " file path", " retrieved successfully."))
           [] tool = "search_file_name" ->
                  Success(tool, mask_multiple_paths(r.val.results),
                          CountMsg(IF r.val.is_time_limit_exceeded THEN "Time limit exceeded. "
                                   ELSE "",
                                   Len(r.val.results), " file path", " retrieved successfully."))
           [] tool = "read_files" ->
                  MaskedDict(tool, r.val.results,
                             CountMsg("Successfully read ", Len(r.val.results), " file", "."))
           [] tool = "search_file_contents" ->
                  MaskedDict(tool, r.val.results,
                             CountMsg(IF r.val.is_time_limit_exceeded
                                      THEN "Time limit exceeded. " ELSE "",
                                      Len(r.val.results), " file path",
                                      " retrieved successfully."))

\* PATH_MASKER.LOOK_FOR of the server: the allowed root, the root and a subdirectory
ServerLookFor ==
    { << <<"/", "d">> >>, << <<"/", "d">>, <<"/", "d", "/", "k">> >> }

\* directories a client names: masked (prefix and segment form), a file, an
\* excluded directory, a second masked value, a real path, the empty string
ServerPaths ==
    { MaskOf(MASK_TOKEN, 0), MaskOf(MASK_TOKEN, 0) \o <<"/", "a">>,
      MaskOf(MASK_TOKEN, 0) \o <<"/", "s">>, MaskOf(MASK_TOKEN, 1),
      <<"/">> \o MaskOf(MASK_TOKEN, 0), <<"/", "x">>, <<>> }

\* file lists a client passes
ServerFileLists ==
    { << MaskOf(MASK_TOKEN, 0) \o <<"/", "a">> >>,
      << MaskOf(MASK_TOKEN, 0) \o <<"/", "k", "/", "c">>, MaskOf(MASK_TOKEN, 0) \o <<"/", "k">> >>,
      << <<"/">> \o MaskOf(MASK_TOKEN, 0) \o <<"/", "a">> >>,
      << MaskOf(MASK_TOKEN, 0) \o <<"/", "s", "/", "b">> >>,
      <<>> }

InitServer ==
    /\ InitTool("FS0", <<"/", "w">>, << <<"/", "d">> >>, << <<"/", "d", "/", "s">> >>, TRUE)
    /\ \E lf \in ServerLookFor, m \in {"prefix", "segment"}, en \in BOOLEAN :
           Masker(lf, MASK_TOKEN, m, en)
    /\ NoCall

\* server.py lines 43-63: get_allowed_paths
ServerAllowedPaths ==
    /\ pc = "idle"
    /\ call' = [op |-> "get_allowed_paths"]
    /\ pc' = "done"
    /\ ret' = Return(allowed_paths)
    /\ response' = Running("get_allowed_paths")
    /\ UNCHANGED <<cfgVars, walkVars, fsTouched>>

\* server.py lines 66-86: get_path_type
ServerPathType ==
    /\ pc = "idle"
    /\ \E paths \in ServerFileLists : PathTypeStart(unmask_multiple_paths(paths))
    /\ response' = Running("get_path_type")

\* server.py lines 89-146: list_file_paths
ServerList ==
    /\ pc = "idle"
    /\ \E base_dir \in ServerPaths, limit \in {-1, 1}, time_limit \in {-1, TimeBudget},
          abs_path \in BOOLEAN :
           ListStart(unmask_path(base_dir), FALSE, limit, time_limit, 1, "bfs", 0,
                     abs_path, FALSE)
    /\ response' = Running("list_file_paths")

\* server.py lines 149-200: search_file_name
ServerSearch ==
    /\ pc = "idle"
    /\ \E regex_pattern \in { << <<"c">> >>, << <<"(">> >> }, base_path \in ServerPaths,
          time_limit \in {-1, TimeBudget} :
           SearchStart(regex_pattern, <<>>, unmask_path(base_path), FALSE, time_limit, 1,
                       FALSE, "bfs")
    /\ response' = Running("search_file_name")

\* server.py lines 203-226: read_files
ServerReadFiles ==
    /\ pc = "idle"
    /\ \E file_paths \in ServerFileLists : ReadFilesStart(unmask_multiple_paths(file_paths))
    /\ response' = Running("read_files")

\* server.py lines 230-271: search_file_contents
ServerContents ==
    /\ pc = "idle"
    /\ \E file_paths \in ServerFileLists, regex_patterns \in { << <<"a">> >>, << <<"(">> >> },
          context_lines \in {0, 1}, time_limit \in {-1, TimeBudget} :
           ContentsStart(unmask_multiple_paths(file_paths), regex_patterns, context_lines,
                         time_limit)
    /\ response' = Running("search_file_contents")

\* the engine has finished: the tool masks the outcome and replies
Respond ==
    /\ pc = "done"
    /\ response.state = "running"
    /\ response' = Reply(response.tool, ret)
    /\ UNCHANGED <<cfgVars, walkVars, pc, call, fsTouched, ret>>

NextServer ==
    \/ ServerAllowedPaths \/ ServerPathType \/ ServerList \/ ServerSearch
    \/ ServerReadFiles \/ ServerContents
    \/ ListPop \/ ListEntry \/ SearchPop \/ SearchEntry \/ ContentsFile \/ Tick
    \/ Respond \/ NextRequest

SpecServer == InitServer /\ [][NextServer]_vars

\* the paths a reply carries: result entries, result keys, the paths paired
\* with a type, and the paths quoted in its message and in the error values
ResponsePaths ==
    { response.message.path }
    \cup (IF response.tool \in {"get_allowed_paths", "list_file_paths", "search_file_name"}
          THEN SeqToSet(response.results)
          ELSE { response.results[i][1] : i \in 1..Len(response.results) })
    \cup (IF response.tool \in {"read_files", "search_file_contents"}
          THEN { response.results[i][2].msg.path : i \in 1..Len(response.results) }
          ELSE {})

\* s is a real absolute path under a sensitive path, not masked
Unmasked(s) == IsAbsolute(s) /\ \E r \in Registered : Contains(r, s)

\* C8: with masking enabled, no reply of a server tool, successful or failed,
\* carries a real absolute path under a sensitive path in unmasked form.
C8_OutputsMasked ==
    (enabled /\ response.state = "replied") => \A s \in ResponsePaths : ~Unmasked(s)

-----------------------------------------------------------------------------
(* Claims about the batch operations *)

IsReadFiles == call.op = "read_files"

\* C11: when read_files or search_file_contents has gone through all its
\* inputs, every input path that fails (it is missing, outside the sandbox,
\* excluded, hidden under suppression, or a directory) has a result slot keyed
\* by that very path, holding an error text.
C11_OwnSlot ==
    ((IsReadFiles \/ IsContents) /\ Returned
        /\ (IsContents => ~ret.val.is_time_limit_exceeded)) =>
        \A n \in 1..Len(call.file_paths) :
            LET f == call.file_paths[n]
            IN  (IsAbsolute(f) /\ ~(Accessible(f) /\ IsFile(f))) =>
                    /\ HasKey(ret.val.results, f)
                    /\ ValueAt(ret.val.results, f).kind = "error"

\* paths a caller asks the type of: a file, a directory, a symlink to a file, a
\* symlink to a directory outside the sandbox, a dangling symlink, hidden
\* entries, an excluded file, paths outside the sandbox, a missing path,
\* relative names, the empty string
PathTypePaths ==
    { <<"/", "d", "/", "a">>, <<"/", "d", "/", "k">>, <<"/", "d", "/", "l">>,
      <<"/", "d", "/", "o">>, <<"/", "d", "/", "z">>, <<"/", "d", "/", ".", "h", "/", "q">>,
      <<"/", "d", "/", ".", "j">>, <<"/", "d", "/", "s", "/", "b">>, <<"/", "x", "/", "f">>,
      <<"/", "x", "/", "a">>, <<"/", "n">>, <<"a">>, <<"k">>, <<"f">>, <<>> }

PathTypeLists ==
    { <<p>> : p \in PathTypePaths }
    \cup { <<p, q>> : p \in { <<"/", "d", "/", "a">>, <<"a">> }, q \in PathTypePaths }

\* the tool runs in a working directory outside the sandbox
InitPathType ==
    /\ \E wd \in { <<"/", "w">>, <<"/", "x">> }, hide \in BOOLEAN :
           InitTool("FS1", wd, << <<"/", "d">> >>, << <<"/", "d", "/", "s">> >>, hide)
    /\ NoMasker
    /\ NoCall

PathTypeOf ==
    pc = "idle" /\ \E paths \in PathTypeLists : PathTypeStart(paths) /\ UNCHANGED response

NextPathType == PathTypeOf \/ NextRequest

SpecPathType == InitPathType /\ [][NextPathType]_vars

IsPathType == call.op = "get_path_type"

\* C12: get_path_type pairs every input with a type; a path that does not exist
\* is "not found"; a path that exists and whose real location is outside every
\* allowed root, inside an excluded path, or hidden under suppression is
\* "[Permission Denied]"; so a file, directory or symbolic link is reported only
\* for paths that is_allowed_path accepts and that really lie in the sandbox.
C12_TypeDisclosure ==
    (IsPathType /\ Returned) =>
        /\ Len(ret.val) = Len(call.paths)
        /\ \A i \in 1..Len(call.paths) :
               LET p == call.paths[i]
                   t == ret.val[i][2]
               IN  /\ ret.val[i][1] = p
                   /\ (p = <<>> \/ ~Exists(p)) => t = "not found"
                   /\ (t \notin {"not found", "[Permission Denied]"}) => is_allowed_path(p)
                   /\ (p # <<>> /\ Exists(p) /\ ~Accessible(p)) => t = "[Permission Denied]"

-----------------------------------------------------------------------------
(* Relative caller paths *)

\* ALLOWED_PATHS with one root and with two roots that both hold a name
RelativeRoots == { << <<"/", "d">> >>, << <<"/", "x">>, <<"/", "d">> >> }

\* relative paths a caller passes: directories, files, a name two roots hold,
\* a name only the second root holds, an excluded directory, a missing name
RelativePaths ==
    { <<"k">>, <<"k", "/", "m">>, <<"a">>, <<"k", "/", "c">>, <<"f">>, <<"s">>, <<"q">> }

\* the tool runs in a working directory outside the roots or in a root
InitRelative ==
    /\ \E wd \in { <<"/", "w">>, <<"/", "d">> }, allowed \in RelativeRoots, hide \in BOOLEAN :
           InitTool("FS1", wd, allowed, << <<"/", "d", "/", "s">> >>, hide)
    /\ NoMasker
    /\ NoCall

RelativeResolve ==
    /\ pc = "idle"
    /\ \E p \in RelativePaths, strict \in BOOLEAN :
           /\ call' = [op |-> "_resolve_path", path |-> p, strict |-> strict]
           /\ pc' = "done"
           /\ ret' = resolve_path(p, strict)
    /\ UNCHANGED <<cfgVars, walkVars, fsTouched, response>>

RelativeList ==
    /\ pc = "idle"
    /\ \E base_dir \in RelativePaths, time_limit \in {-1, TimeBudget} :
           ListStart(base_dir, FALSE, -1, time_limit, 1, "bfs", 0, FALSE, FALSE)
    /\ UNCHANGED response

RelativeSearch ==
    /\ pc = "idle"
    /\ \E base_path \in RelativePaths, time_limit \in {-1, TimeBudget} :
           SearchStart(<< <<"c">> >>, <<>>, base_path, FALSE, time_limit, 1, FALSE, "bfs")
    /\ UNCHANGED response

RelativeRead ==
    /\ pc = "idle"
    /\ \E p \in RelativePaths : ReadFilesStart(<<p>>)
    /\ UNCHANGED response

RelativeContents ==
    /\ pc = "idle"
    /\ \E p \in RelativePaths, time_limit \in {-1, TimeBudget} :
           ContentsStart(<<p>>, << <<"a">> >>, 0, time_limit)
    /\ UNCHANGED response

NextRelative ==
    \/ RelativeResolve \/ RelativeList \/ RelativeSearch \/ RelativeRead \/ RelativeContents
    \/ ListPop \/ ListEntry \/ SearchPop \/ SearchEntry \/ ContentsFile \/ Tick
    \/ NextRequest

SpecRelative == InitRelative /\ [][NextRelative]_vars

\* the allowed roots under which the relative path p exists, by position
RootsHolding(p) == { i \in 1..Len(allowed_paths) : Exists(PathJoin(allowed_paths[i], p)) }

\* the real location of p under the first allowed root that holds it
UnderFirstRoot(p) ==
    Resolve(PathJoin(allowed_paths[CHOOSE i \in RootsHolding(p) :
                                       \A j \in RootsHolding(p) : i <= j], p))

\* the caller's path of the running call
CallerPath ==
    CASE call.op = "_resolve_path" -> call.path
      [] IsList -> call.base_dir
      [] IsSearch -> call.base_path
      [] IsReadFiles \/ IsContents -> call.file_paths[1]

\* C13: a relative caller path that exists under some allowed root, and whose
\* real location under the first such root may be accessed, is resolved to
\* that location whatever the working directory: _resolve_path returns it,
\* list_file_paths and search_file_name walk from it when it is a directory,
\* read_files and search_file_contents key their entry by it; a relative path
\* that no allowed root holds is not found by _resolve_path.
C13_RootsOnly ==
    (pc = "done" /\ call.op \in {"_resolve_path", "list_file_paths", "search_file_name",
                                 "read_files", "search_file_contents"}
        /\ ~IsAbsolute(CallerPath)) =>
        LET p == CallerPath
        IN  IF RootsHolding(p) = {}
            THEN call.op = "_resolve_path" =>
                     IF call.strict THEN ret.kind = "raise" /\ ret.exc = "FileNotFoundError"
                     ELSE ret = Return(None)
            ELSE Accessible(UnderFirstRoot(p)) =>
                     CASE call.op = "_resolve_path" -> ret = Return(UnderFirstRoot(p))
                       [] IsList \/ IsSearch ->
                              IsDir(UnderFirstRoot(p)) =>
                                  ret.kind = "return" /\ call.root = UnderFirstRoot(p)
                       [] IsReadFiles -> HasKey(ret.val.results, UnderFirstRoot(p))
                       [] IsContents ->
                              (~ret.val.is_time_limit_exceeded /\ IsDir(UnderFirstRoot(p))) =>
                                  HasKey(ret.val.results, UnderFirstRoot(p))

-----------------------------------------------------------------------------
(* _resolve_path in its two modes *)

\* paths resolved in both modes: those of ResolveInputs and the symlinks of FS1
StrictInputs ==
    ResolveInputs
    \cup { <<"/", "d", "/", "l">>, <<"/", "d", "/", ".", "j">>,
           <<"/", "d", "/", "k", "/", "m", "/", "u">>,
           <<"/", "d", "/", "k", "/", "m", "/", "u", "/", ".", "g">>, <<"a">> }

InitStrict ==
    /\ \E allowed \in AllowedConfigs \cup RelativeRoots, excluded \in ExcludeConfigs,
          hide \in BOOLEAN :
           InitTool("FS1", <<"/", "w">>, allowed, excluded, hide)
    /\ NoMasker
    /\ NoCall

\* a caller resolves a path in strict mode
StrictCall ==
    /\ pc = "idle"
    /\ \E p \in StrictInputs :
           /\ call' = [op |-> "_resolve_path", path |-> p, strict |-> TRUE]
           /\ pc' = "done"
           /\ ret' = resolve_path(p, TRUE)
    /\ UNCHANGED <<cfgVars, walkVars, fsTouched, response>>

\* the caller resolves the same path again in non-strict mode, keeping the
\* outcome of the strict call
LaxCall ==
    /\ pc = "done"
    /\ call.op = "_resolve_path"
    /\ call.strict
    /\ call' = [op |-> "_resolve_path", path |-> call.path, strict |-> FALSE,
                strict_outcome |-> ret]
    /\ ret' = resolve_path(call.path, FALSE)
    /\ UNCHANGED <<cfgVars, walkVars, pc, fsTouched, response>>

NextStrict == StrictCall \/ LaxCall \/ NextRequest

SpecStrict == InitStrict /\ [][NextStrict]_vars

\* both modes have been applied to the same path
BothModes == call.op = "_resolve_path" /\ ~call.strict /\ pc = "done"

\* C14: for the same path and filesystem, the non-strict call never raises
\* FileNotFoundError or PermissionError; it returns None exactly when the
\* strict call raises one of the two; and when the strict call returns, both
\* return the same canonical path.
C14_ModesAgree ==
    BothModes =>
        /\ ~(ret.kind = "raise" /\ ret.exc \in {"FileNotFoundError", "PermissionError"})
        /\ ret = Return(None) <=>
               (call.strict_outcome.kind = "raise"
                /\ call.strict_outcome.exc \in {"FileNotFoundError", "PermissionError"})
        /\ call.strict_outcome.kind = "return" =>
               /\ ret = call.strict_outcome
               /\ IsCanonical(ret.val)

\* a hidden real location has been refused in both modes: the strict call
\* raised PermissionError and the non-strict call returned None
C14_Witness ==
    /\ BothModes
    /\ ~SHOW_HIDDEN
    /\ call.path = <<"/", "d", "/", ".", "h">>
    /\ call.strict_outcome.kind = "raise"
    /\ call.strict_outcome.exc = "PermissionError"
    /\ ret = Return(None)

-----------------------------------------------------------------------------
(* is_allowed_path against _resolve_path *)

\* the caller asks is_allowed_path about the path it has just resolved in
\* strict mode, keeping the outcome of that call
AllowedCall ==
    /\ pc = "done"
    /\ call.op = "_resolve_path"
    /\ call.strict
    /\ call' = [op |-> "is_allowed_path", path |-> call.path, strict_outcome |-> ret]
    /\ ret' = Return(is_allowed_path(call.path))
    /\ UNCHANGED <<cfgVars, walkVars, pc, fsTouched, response>>

NextAllowed == StrictCall \/ AllowedCall \/ NextRequest

SpecAllowed == InitStrict /\ [][NextAllowed]_vars

\* C15: for the same path and filesystem, is_allowed_path answers True exactly
\* when the strict _resolve_path call returned, and False exactly when it
\* raised FileNotFoundError or PermissionError.
C15_SamePipeline ==
    (call.op = "is_allowed_path" /\ pc = "done") =>
        /\ ret.val = TRUE <=> call.strict_outcome.kind = "return"
        /\ ret.val = FALSE <=>
               (call.strict_outcome.kind = "raise"
                /\ call.strict_outcome.exc \in {"FileNotFoundError", "PermissionError"})

-----------------------------------------------------------------------------
(* Termination of the walks on a tree with symlink loops *)

\* roots of the walks: the allowed root, a directory with a symlink to its
\* parent, a directory that holds only a symlink to itself
LoopRoots ==
    { <<"/", "d">>, <<"/", "d", "/", "k", "/", "m">>, <<"/", "d", "/", "r">> }

InitLoop ==
    /\ \E hide \in BOOLEAN :
           InitTool("FS1", <<"/", "w">>, << <<"/", "d">> >>, << <<"/", "d", "/", "s">> >>, hide)
    /\ NoMasker
    /\ NoCall

\* list_file_paths with a finite time budget
LoopList ==
    /\ pc = "idle"
    /\ \E base_dir \in LoopRoots, max_nested_level \in {-1, 1},
          search_mode \in {"bfs", "dfs"}, file_only \in BOOLEAN :
           ListStart(base_dir, FALSE, -1, TimeBudget, max_nested_level, search_mode, 0,
                     FALSE, file_only)
    /\ UNCHANGED response

\* search_file_name with a finite time budget
LoopSearch ==
    /\ pc = "idle"
    /\ \E regex_pattern \in { << <<"c">> >>, << <<"z">> >> }, base_path \in LoopRoots,
          max_nested_level \in {-1, 1}, search_mode \in {"bfs", "dfs"} :
           SearchStart(regex_pattern, <<>>, base_path, FALSE, TimeBudget, max_nested_level,
                       FALSE, search_mode)
    /\ UNCHANGED response

\* search_file_contents with and without a time budget
LoopContents ==
    /\ pc = "idle"
    /\ \E file_paths \in FileLists, time_limit \in {-1, TimeBudget} :
           ContentsStart(file_paths, << <<"a">> >>, 0, time_limit)
    /\ UNCHANGED response

\* the next step of the running call
CallStep == ListPop \/ ListEntry \/ SearchPop \/ SearchEntry \/ ContentsFile

NextLoop == LoopList \/ LoopSearch \/ LoopContents \/ CallStep \/ Tick \/ NextRequest

\* a call that has started keeps running: its loops take their next step
SpecLoop == InitLoop /\ [][NextLoop]_vars /\ WF_vars(CallStep)

\* the call is in one of its loops
InLoop == pc \in {"pop", "entry", "file"}

\* l is what is left of the list full after some of its first items were taken
IsSuffix(l, full) ==
    Len(l) <= Len(full) /\ l = SubSeq(full, Len(full) - Len(l) + 1, Len(full))

\* C16: every list_file_paths or search_file_name call with a finite time
\* budget that is in its loop eventually ends, on a tree with symlinks to
\* ancestors, with unlimited depth, with file_only, and when it emits no entry;
\* every search_file_contents call eventually ends, and the files it still has
\* to go through are always a tail of its input list (one pass).
C16_Terminates ==
    /\ [](IsContents /\ pc = "file" => IsSuffix(queue, call.file_paths))
    /\ (InLoop /\ (IsContents \/ call.time_limit # -1)) ~> (pc = "done")

\* list_file_paths has returned from an unlimited-depth, files-only walk of the
\* directory that holds only a symlink to itself: it emitted nothing, and its
\* time budget ran out on the way without ending it
C16_Witness ==
    /\ IsList /\ pc = "done" /\ ret.kind = "return"
    /\ call.base_dir = <<"/", "d", "/", "r">>
    /\ call.max_nested_level = -1
    /\ call.file_only
    /\ call.time_limit = TimeBudget
    /\ ret.val.results = <<>>
    /\ ~ret.val.is_time_limit_exceeded

-----------------------------------------------------------------------------
(* The order of the returned list *)

\* l is in ascending string order
IsSortedList(l) == \A i \in 1..(Len(l) - 1) : ~StrLess(l[i + 1], l[i])

\* C17: the result list list_file_paths or search_file_name returns is sorted
\* in string order, on every return path (completion, count limit, time limit).
C17_Sorted ==
    ((IsList \/ IsSearch) /\ Returned) => IsSortedList(ret.val.results)

-----------------------------------------------------------------------------
(* search_file_contents and its time budget *)

\* the result dictionary after the first k files of the call's list, and no
\* other, have been processed in the order of the list
RECURSIVE ProcessedFirst(_)
ProcessedFirst(k) ==
    IF k = 0 THEN <<>>
    ELSE ContentsOne(ProcessedFirst(k - 1), resolve_path(call.file_paths[k], FALSE).val,
                     call.regex_patterns, call.context_lines)

\* C18: search_file_contents goes through its files in the caller's order and
\* looks at the clock before each file: while it runs, its result is that of the
\* files taken so far, a prefix of the list; when the budget is found exceeded
\* before a file it returns at once, with is_time_limit_exceeded true and the
\* result as it stands (the files not reached have no entry of their own); a
\* return with the flag true has left at least one file unprocessed, a return
\* with the flag false has processed every file.
C18_TimeCheckPerFile ==
    /\ [](IsContents /\ pc = "file" =>
              /\ IsSuffix(queue, call.file_paths)
              /\ results = ProcessedFirst(Len(call.file_paths) - Len(queue)))
    /\ [](IsContents /\ Returned =>
              IF ret.val.is_time_limit_exceeded
              THEN /\ call.time_limit >= 0
                   /\ \E k \in 0..(Len(call.file_paths) - 1) :
                          ret.val.results = ProcessedFirst(k)
              ELSE ret.val.results = ProcessedFirst(Len(call.file_paths)))
    /\ [][(IsContents /\ pc = "file" /\ queue # <<>> /\ call.time_limit >= 0 /\ timeUp) =>
              /\ pc' = "done"
              /\ ret'.kind = "return"
              /\ ret'.val.is_time_limit_exceeded
              /\ ret'.val.results = results]_vars

\* the budget ran out after the first of two files: the call returned the entry
\* of the first and none for the second
C18_Witness ==
    /\ IsContents
    /\ Returned
    /\ ret.val.is_time_limit_exceeded
    /\ call.file_paths = << <<"/", "d", "/", "a">>, <<"/", "d", "/", "k", "/", "c">> >>
    /\ ret.val.results = ProcessedFirst(1)
    /\ HasKey(ret.val.results, <<"/", "d", "/", "a">>)
    /\ ~HasKey(ret.val.results, <<"/", "d", "/", "k", "/", "c">>)
    /\ ProcessedFirst(2) # ProcessedFirst(1)

-----------------------------------------------------------------------------
(* search_file_name: exclude patterns *)

\* an exclude pattern of the running search matches the path D
ExcludedDir(D) ==
    \E i \in 1..Len(call.exclude_regex_patterns) :
        RegexSearch(call.exclude_regex_patterns[i], D)

\* the directories from the search root down to the parent of p (for p below the
\* root), as full paths
DirsAbove(p) ==
    { SubSeq(p, 1, i - 1) : i \in { j \in 1..Len(p) : p[j] = SEP /\ j > Len(call.root) } }

\* C19: in search_file_name a directory, from the search root down, whose full
\* path an exclude pattern matches is never listed, no entry below it is put on
\* the worklist, and no entry in it or anywhere below it is collected or
\* returned, whether or not its name matches an include pattern.
C19_Pruned ==
    (IsSearch /\ call.root # None) =>
        /\ pc = "entry" => ~ExcludedDir(cur[1])
        /\ \A i \in 1..Len(queue) : \A D \in DirsAbove(queue[i][1]) : ~ExcludedDir(D)
        /\ \A i \in 1..Len(results) : \A D \in DirsAbove(FullOf(results[i])) : ~ExcludedDir(D)
        /\ Returned => \A e \in ReturnedPaths : \A D \in DirsAbove(e) : ~ExcludedDir(D)

\* the search of /d with the directories ending in m excluded has returned: the
\* file e of /d/k/m, whose name matches an include pattern, is not in the result
C19_Witness ==
    /\ IsSearch
    /\ Returned
    /\ call.root = <<"/", "d">>
    /\ call.exclude_regex_patterns = << <<"m", "$">> >>
    /\ call.regex_pattern = << <<"e", "$">>, <<"^", "a">> >>
    /\ call.max_nested_level = -1
    /\ ~ret.val.is_time_limit_exceeded
    /\ ReturnedPaths = { <<"/", "d", "/", "a">> }
    /\ IsFile(<<"/", "d", "/", "k", "/", "m", "/", "e">>)

-----------------------------------------------------------------------------
(* search_file_name: what a search is expected to return *)

\* the directories the search lists at level n below its root: accessible
\* directories that no exclude pattern matches, each inside one of level n - 1
RECURSIVE SearchedAt(_)
SearchedAt(n) ==
    IF n = 0
    THEN { d \in {call.root} : Accessible(d) /\ ~ExcludedDir(d) }
    ELSE { e \in UNION { { PathJoin(d, m) : m \in ListNames(d) } : d \in SearchedAt(n - 1) } :
             Accessible(e) /\ IsDir(e) /\ ~ExcludedDir(e) }

\* the directories within the depth bound and outside pruned subtrees
SearchedDirs ==
    UNION { SearchedAt(n) :
              n \in 0..(IF call.max_nested_level < 0 THEN MaxTreeDepth
                        ELSE call.max_nested_level) }

\* the accessible non-directory entries of the searched directories
SearchedFiles ==
    { e \in UNION { { PathJoin(d, m) : m \in ListNames(d) } : d \in SearchedDirs } :
        Accessible(e) /\ ~IsDir(e) }

\* an include pattern of the running search matches the name
IncludedName(name) ==
    \E i \in 1..Len(call.regex_pattern) : RegexSearch(call.regex_pattern[i], name)

\* a search that no time bound cut short has returned
SearchCompleted == IsSearch /\ Returned /\ ~ret.val.is_time_limit_exceeded

\* C20 as stated: a search that no time bound cut short returns exactly the
\* allowed non-directory entries, within the depth bound and outside pruned
\* subtrees, whose name is matched by an include pattern, each once.
C20_ExactMatches ==
    SearchCompleted =>
        /\ ReturnedPaths = { e \in SearchedFiles : IncludedName(Basename(e)) }
        /\ Len(ret.val.results) = Cardinality(ReturnedPaths)

\* C20, amended: a search that no time bound cut short returns exactly the
\* allowed non-directory entries, within the depth bound and outside pruned
\* subtrees, whose name is matched by an include pattern and, unless hidden
\* files are shown (by the caller and by the server), is not hidden; each once,
\* however many patterns match it, and never a directory.
C20_ExactShownMatches ==
    SearchCompleted =>
        /\ ReturnedPaths =
               { e \in SearchedFiles :
                   /\ IncludedName(Basename(e))
                   /\ call.show_hidden \/ ~is_hidden(Basename(e)) }
        /\ Len(ret.val.results) = Cardinality(ReturnedPaths)
        /\ \A e \in ReturnedPaths : ~IsDir(e)

\* a search of /d with two patterns that both match the name c returned c once,
\* and left out the hidden file .g that the caller did not ask for
C20_Witness ==
    /\ SearchCompleted
    /\ SHOW_HIDDEN
    /\ ~call.show_hidden
    /\ call.root = <<"/", "d">>
    /\ call.regex_pattern = << <<".">>, <<"c">> >>
    /\ call.exclude_regex_patterns = <<>>
    /\ call.max_nested_level = -1
    /\ <<"/", "d", "/", "k", "/", "c">> \in ReturnedPaths
    /\ <<"/", "d", "/", "k", "/", ".", "g">> \in SearchedFiles
    /\ <<"/", "d", "/", "k", "/", ".", "g">> \notin ReturnedPaths
    /\ Cardinality({ i \in 1..Len(ret.val.results) :
                       FullOf(ret.val.results[i]) = <<"/", "d", "/", "k", "/", "c">> }) = 1

-----------------------------------------------------------------------------
(* start_from *)

\* the entries of the running walk's root that start_from skips: the first
\* start_from names of the root's sorted listing without the suppressed names
SkippedAtRoot ==
    { PathJoin(call.root, n) :
        n \in { m \in Shown(call.root, call.show_hidden) :
                  Rank(call.root, call.show_hidden, m) < call.start_from } }

\* the path e is the entry d or lies below it
AtOrUnder(e, d) == e = d \/ StartsWith(e, d \o <<SEP>>)

\* C21: with start_from = k > 0 the first k entries of the root's sorted,
\* hidden-filtered listing are neither emitted nor descended into, so nothing
\* at or below them is queued or returned; in every other directory nothing is
\* skipped: a walk that no bound cut short returns exactly what the walk
\* without start_from reaches outside the skipped entries.
C21_SkipAtRoot ==
    (IsList /\ call.root # None /\ call.start_from > 0) =>
        /\ pc \in {"pop", "entry"} =>
               \A s \in SkippedAtRoot :
                   /\ \A i \in 1..Len(queue) : ~AtOrUnder(queue[i][1], s)
                   /\ \A i \in 1..Len(results) : ~AtOrUnder(FullOf(results[i]), s)
        /\ Returned => \A s \in SkippedAtRoot, e \in ReturnedPaths : ~AtOrUnder(e, s)
        /\ (Returned /\ ~ret.val.is_limit_exceeded /\ ~ret.val.is_time_limit_exceeded) =>
               ReturnedPaths =
                   { e \in ReachUpTo(call.root, call.show_hidden, 0, call.max_nested_level) :
                       /\ call.file_only => IsFile(e)
                       /\ \A s \in SkippedAtRoot : ~AtOrUnder(e, s) }

\* a complete walk of /d that skipped the directory .h returned the entries of
\* the directory k, the first of them included, and nothing of .h
C21_Witness ==
    /\ IsList
    /\ Returned
    /\ call.root = <<"/", "d">>
    /\ call.start_from = 1
    /\ call.show_hidden
    /\ call.max_nested_level = -1
    /\ ~call.file_only
    /\ ~ret.val.is_limit_exceeded
    /\ ~ret.val.is_time_limit_exceeded
    /\ SkippedAtRoot = { <<"/", "d", "/", ".", "h">> }
    /\ IsDir(<<"/", "d", "/", ".", "h">>)
    /\ <<"/", "d", "/", "k", "/", ".", "g">> \in ReturnedPaths
    /\ <<"/", "d", "/", "a">> \in ReturnedPaths
    /\ <<"/", "d", "/", ".", "h", "/", "q">> \notin ReturnedPaths

-----------------------------------------------------------------------------
(* Order of the walk *)

\* the directory that holds the entry with path e
ParentOf(e) == LET parts == Split(e, SEP) IN Join(SubSeq(parts, 1, Len(parts) - 1), SEP)

\* depth below the walk's root of the directory that holds the emitted entry r
EmittedLevel(r) == LevelOf(RelPath(FullOf(r), call.root))

\* the entries the running walk emits when nothing cuts it short
Eligible ==
    { e \in ReachUpTo(call.root, call.show_hidden, call.start_from, call.max_nested_level) :
        call.file_only => IsFile(e) }

\* C22: list_file_paths works from one worklist that grows at its end; in bfs
\* mode the directory processed next is the oldest one on it, so entries are
\* emitted level by level and a count limit leaves out entries of the deepest
\* levels first; in dfs mode it is the most recently added one; in both modes
\* all entries of a directory are emitted before any entry of a directory
\* below it.
C22_WorklistOrder ==
    /\ [][(IsList /\ pc = "pop" /\ queue # <<>> /\ pc' # "done" /\ timeUp' = timeUp) =>
              /\ call.search_mode = "bfs" =>
                     queue' = Tail(queue) /\ (pc' = "entry" => cur' = queue[1])
              /\ call.search_mode = "dfs" =>
                     /\ queue' = SubSeq(queue, 1, Len(queue) - 1)
                     /\ pc' = "entry" => cur' = queue[Len(queue)]]_vars
    /\ [][(IsList /\ pc = "entry" /\ pc' # "done") =>
              \/ queue' = queue
              \/ /\ Len(queue') = Len(queue) + 1
                 /\ SubSeq(queue', 1, Len(queue)) = queue
                 /\ queue'[Len(queue')][1] = PathJoin(cur[1], entries[1])]_vars
    /\ [](IsList /\ pc \in {"pop", "entry"} =>
              /\ \A i, j \in 1..Len(results) :
                     i < j => ~AtOrUnder(ParentOf(FullOf(results[i])),
                                         ParentOf(FullOf(results[j])) \o <<SEP>>)
              /\ call.search_mode = "bfs" =>
                     /\ \A i, j \in 1..Len(results) :
                            i < j => EmittedLevel(results[i]) <= EmittedLevel(results[j])
                     /\ \A i, j \in 1..Len(queue) : i < j => queue[i][2] <= queue[j][2])
    /\ [](IsList /\ Returned /\ call.search_mode = "bfs" /\ ret.val.is_limit_exceeded =>
              \A e \in Eligible \ ReturnedPaths, r \in ReturnedPaths :
                  LevelOf(RelPath(r, call.root)) <= LevelOf(RelPath(e, call.root)))

\* a dfs walk of /d has emitted the entries of /d, then those of k, the
\* directory added last, and of k/m, and has the directory .h left to list
C22_Witness ==
    /\ IsList
    /\ pc = "pop"
    /\ call.search_mode = "dfs"
    /\ call.root = <<"/", "d">>
    /\ ~call.abs_path
    /\ results = << <<".", "h">>, <<"a">>, <<"k">>, <<"k", "/", ".", "g">>,
                    <<"k", "/", "c">>, <<"k", "/", "m">>, <<"k", "/", "m", "/", "e">> >>
    /\ queue = << << <<"/", "d", "/", ".", "h">>, 1 >> >>

-----------------------------------------------------------------------------
(* file_only *)

\* roots of the depth-bounded walks with and without file_only: the allowed
\* root and a subdirectory, on the tree with symlinks to a file and to directories
FileOnlyRoots == { <<"/", "d">>, <<"/", "d", "/", "k">> }

InitFileOnly ==
    /\ \E hide \in BOOLEAN :
           InitTool("FS1", <<"/", "w">>, << <<"/", "d">> >>, << <<"/", "d", "/", "s">> >>, hide)
    /\ NoMasker
    /\ NoCall

FileOnlyList ==
    /\ pc = "idle"
    /\ \E base_dir \in FileOnlyRoots, show_hidden \in BOOLEAN, limit \in {-1, 3},
          time_limit \in {-1, TimeBudget}, max_nested_level \in 0..MaxNest,
          search_mode \in {"bfs", "dfs"}, file_only \in BOOLEAN :
           ListStart(base_dir, show_hidden, limit, time_limit, max_nested_level,
                     search_mode, 0, FALSE, file_only)
    /\ UNCHANGED response

NextFileOnly == FileOnlyList \/ ListPop \/ ListEntry \/ Tick \/ NextRequest

SpecFileOnly == InitFileOnly /\ [][NextFileOnly]_vars

\* what the walk of the running call emits without file_only when nothing cuts
\* it short
ListedWithoutFileOnly ==
    ReachUpTo(call.root, call.show_hidden, call.start_from, call.max_nested_level)

-----------------------------------------------------------------------------
(* The mask mapping *)

\* the key under which the i-th sensitive path is registered: its canonical
\* path in prefix mode, its leaf name in segment mode
KeyOf(i) ==
    LET full_path == RStrip(Resolve(look_for[i]), {SEP})
    IN  IF mode = "prefix" THEN full_path ELSE Basename(full_path)

\* C24: the mask mapping is a bijection between the registered keys and the
\* masked values, the i-th sensitive path (counted from 0) having the masked
\* value [<token>i], for every configured list; masked_map and reversed_map
\* are inverses of each other.
C24_Bijection ==
    /\ \A i \in 1..Len(look_for) :
           /\ DictGet(masked_map, KeyOf(i), None) = MaskOf(MASK_TOKEN, i - 1)
           /\ DictGet(reversed_map, MaskOf(MASK_TOKEN, i - 1), None) = KeyOf(i)
    /\ \A i \in 1..Len(masked_map) :
           DictGet(reversed_map, masked_map[i][2], None) = masked_map[i][1]
    /\ \A i \in 1..Len(reversed_map) :
           DictGet(masked_map, reversed_map[i][2], None) = reversed_map[i][1]
    /\ Len(masked_map) = Len(reversed_map)

-----------------------------------------------------------------------------
(* Relative entries in the replies of the list_file_paths tool *)

\* the list_file_paths tool has replied with the result of a walk
ListReplied ==
    /\ response.tool = "list_file_paths"
    /\ response.state = "replied"
    /\ response.success

\* C25: with abs_path = false the entries the list_file_paths tool replies with
\* are the paths relative to the walk's root that the walk returned, with
\* masking enabled as with masking disabled: each names an entry below the
\* root and none is an absolute path.
C25_RelativeEntries ==
    (ListReplied /\ ~call.abs_path) =>
        /\ response.results = ret.val.results
        /\ \A i \in 1..Len(response.results) :
               /\ ~IsAbsolute(response.results[i])
               /\ Exists(PathJoin(call.root, response.results[i]))

-----------------------------------------------------------------------------
(* The default root *)

\* the tool runs outside the roots or in a root; one root or two
InitDefaultRoot ==
    /\ \E wd \in { <<"/", "w">>, <<"/", "d">> }, allowed \in RelativeRoots, hide \in BOOLEAN :
           InitTool("FS0", wd, allowed, << <<"/", "d", "/", "s">> >>, hide)
    /\ NoMasker
    /\ NoCall

\* _resolve_path('' | '.' | './') in both modes
DefaultResolve ==
    /\ pc = "idle"
    /\ \E p \in DefaultRootInputs, strict \in BOOLEAN :
           /\ call' = [op |-> "_resolve_path", path |-> p, strict |-> strict]
           /\ pc' = "done"
           /\ ret' = resolve_path(p, strict)
    /\ UNCHANGED <<cfgVars, walkVars, fsTouched, response>>

\* list_file_paths('' | '.' | './')
DefaultList ==
    /\ pc = "idle"
    /\ \E base_dir \in DefaultRootInputs, time_limit \in {-1, TimeBudget},
          search_mode \in {"bfs", "dfs"}, abs_path \in BOOLEAN :
           ListStart(base_dir, FALSE, -1, time_limit, 1, search_mode, 0, abs_path, FALSE)
    /\ UNCHANGED response

\* search_file_name(base_path = '' | '.' | './')
DefaultSearch ==
    /\ pc = "idle"
    /\ \E base_path \in DefaultRootInputs, time_limit \in {-1, TimeBudget},
          search_mode \in {"bfs", "dfs"}, abs_path \in BOOLEAN :
           SearchStart(<< <<".">> >>, <<>>, base_path, FALSE, time_limit, 1, abs_path,
                       search_mode)
    /\ UNCHANGED response

NextDefaultRoot ==
    \/ DefaultResolve \/ DefaultList \/ DefaultSearch
    \/ ListPop \/ ListEntry \/ SearchPop \/ SearchEntry \/ Tick \/ NextRequest

SpecDefaultRoot == InitDefaultRoot /\ [][NextDefaultRoot]_vars

\* C26: '', '.' and './' denote the first allowed root: _resolve_path returns
\* that root for each of them, and list_file_paths and search_file_name given
\* one of them as their root walk the first allowed root and return a result.
C26_DefaultRoot ==
    /\ (call.op = "_resolve_path" /\ pc = "done" /\ call.path \in DefaultRootInputs) =>
           ret = Return(allowed_paths[1])
    /\ (IsList /\ call.base_dir \in DefaultRootInputs) =>
           /\ call.root = allowed_paths[1]
           /\ pc = "done" => ret.kind = "return"
    /\ (IsSearch /\ call.base_path \in DefaultRootInputs) =>
           /\ call.root = allowed_paths[1]
           /\ pc = "done" => ret.kind = "return"

-----------------------------------------------------------------------------
(* bfs and dfs *)

\* the result list of the running walk when nothing cuts it short, from its
\* arguments other than search_mode: the entries reachable within the depth
\* bound, in the form asked for, sorted
CompleteListing ==
    SortedSet({ IF call.abs_path THEN e ELSE RelPath(e, call.root) : e \in Eligible })

\* C27: on a finite tree without symlink cycles, a list_file_paths call that
\* neither the count limit nor the time limit cut short returns a list that its
\* arguments other than search_mode determine, so the bfs call and the dfs call
\* with the same other arguments return the same list.
C27_ModeIndependent ==
    (IsList /\ Returned /\ ~ret.val.is_limit_exceeded /\ ~ret.val.is_time_limit_exceeded) =>
        ret.val.results = CompleteListing

\* a complete dfs walk of /d, whose order of discovery is not the sorted
\* order, returned the list the bfs walk returns
C27_Witness ==
    /\ IsList
    /\ Returned
    /\ call.search_mode = "dfs"
    /\ call.root = <<"/", "d">>
    /\ call.max_nested_level = -1
    /\ call.limit = -1
    /\ ~ret.val.is_time_limit_exceeded
    /\ ret.val.results =
           << <<".", "h">>, <<".", "h", "/", "q">>, <<"a">>, <<"k">>, <<"k", "/", ".", "g">>,
              <<"k", "/", "c">>, <<"k", "/", "m">>, <<"k", "/", "m", "/", "e">> >>

-----------------------------------------------------------------------------
(* The enforced lists after construction *)

\* EXCLUDE_PATHS as configured: /d/s exists in both trees, /d/r only in FS1
ExclusionConfig == << <<"/", "d", "/", "s">>, <<"/", "d", "/", "r">> >>

\* ALLOWED_PATHS as configured: /d exists, /q does not
ExclusionRoots == << <<"/", "d">>, <<"/", "q">> >>

\* paths resolved: the directory created after construction, the symlink in
\* it, a file of the excluded directory, a file, a symlink to a file
ExclusionInputs ==
    { <<"/", "d", "/", "r">>, <<"/", "d", "/", "r", "/", "v">>, <<"/", "d", "/", "s", "/", "b">>,
      <<"/", "d", "/", "a">>, <<"/", "d", "/", "l">>, <<"/", "q">> }

\* the tool is constructed on the tree without /d/r or on the tree with it
InitExclusion ==
    /\ \E f \in {"FS0", "FS1"}, hide \in BOOLEAN :
           InitTool(f, <<"/", "w">>, ExclusionRoots, ExclusionConfig, hide)
    /\ NoMasker
    /\ NoCall

\* the filesystem changes between two calls: the entries of FS1 that FS0 lacks
\* are created
Created ==
    /\ pc = "idle"
    /\ fs.tree = "FS0"
    /\ fs' = [tree |-> "FS1"]
    /\ UNCHANGED <<cwd, allowed_paths, exclude_paths, SHOW_HIDDEN, look_for, enabled, mode,
                   masked_map, reversed_map, pc, call, walkVars, fsTouched, ret, response>>

ExclusionResolve ==
    /\ pc = "idle"
    /\ \E p \in ExclusionInputs, strict \in BOOLEAN :
           /\ call' = [op |-> "_resolve_path", path |-> p, strict |-> strict]
           /\ pc' = "done"
           /\ ret' = resolve_path(p, strict)
    /\ UNCHANGED <<cfgVars, walkVars, fsTouched, response>>

ExclusionList ==
    /\ pc = "idle"
    /\ \E time_limit \in {-1, TimeBudget}, max_nested_level \in {0, 1}, abs_path \in BOOLEAN :
           ListStart(<<"/", "d">>, FALSE, -1, time_limit, max_nested_level, "bfs", 0,
                     abs_path, FALSE)
    /\ UNCHANGED response

NextExclusion ==
    Created \/ ExclusionResolve \/ ExclusionList \/ ListPop \/ ListEntry \/ Tick \/ NextRequest

SpecExclusion == InitExclusion /\ [][NextExclusion]_vars

\* /d/r is among the enforced excluded paths
ExcludesR == <<"/", "d", "/", "r">> \in SeqToSet(exclude_paths)

\* C28: the enforced lists are fixed at construction to the configured paths
\* that exist then (a configured excluded path that does not exist is dropped,
\* as a missing allowed root is) and no step changes them; so a directory
\* created afterwards at a dropped excluded path is resolved and listed like
\* any other, while the same directory is denied when it existed at
\* construction.
C28_FixedAtConstruction ==
    /\ allowed_paths = << <<"/", "d">> >>
    /\ exclude_paths = IF fs.tree = "FS0" THEN << <<"/", "d", "/", "s">> >> ELSE ExclusionConfig
    /\ [][allowed_paths' = allowed_paths /\ exclude_paths' = exclude_paths]_vars
    /\ [](call.op = "_resolve_path" /\ pc = "done" /\ fs.tree = "FS1"
          /\ call.path \in { <<"/", "d", "/", "r">>, <<"/", "d", "/", "r", "/", "v">> } =>
              IF ExcludesR
              THEN IF call.strict THEN ret.kind = "raise" /\ ret.exc = "PermissionError"
                   ELSE ret = Return(None)
              ELSE ret = Return(<<"/", "d", "/", "r">>))
    /\ [](IsList /\ Returned /\ fs.tree = "FS1" /\ ~ret.val.is_time_limit_exceeded =>
              (<<"/", "d", "/", "r">> \in ReturnedPaths <=> ~ExcludesR))

\* /d/r, configured as excluded, did not exist at construction and was created
\* later; a strict _resolve_path of it has returned it
C28_Witness ==
    /\ ~ExcludesR
    /\ fs.tree = "FS1"
    /\ call.op = "_resolve_path"
    /\ pc = "done"
    /\ call.strict
    /\ call.path = <<"/", "d", "/", "r">>
    /\ ret = Return(<<"/", "d", "/", "r">>)
    /\ exclude_paths = << <<"/", "d", "/", "s">> >>

-----------------------------------------------------------------------------
(* What a caller learns about paths outside the sandbox *)

\* absolute paths a caller asks for: outside the sandbox (present in one tree
\* only, present in both, absent from both, given with ".."), symlinks of the
\* sandbox that lead out of it, a sibling of the root, a file of the sandbox
OutsideInputs ==
    { <<"/", "x", "/", "a">>, <<"/", "x", "/", "f">>, <<"/", "n">>,
      <<"/", "x", "/", ".", ".", "/", "x", "/", "a">>, <<"/", "d", "/", "o">>,
      <<"/", "d", "/", "o", "/", "a">>, <<"/", "d", "/", "z">>, <<"/", "d", "x", "/", "f">>,
      <<"/", "d", "/", "a">> }

InitOutside ==
    /\ \E f \in {"FS0", "FS2"}, hide \in BOOLEAN :
           InitTool(f, <<"/", "w">>, << <<"/", "d">> >>, << <<"/", "d", "/", "s">> >>, hide)
    /\ NoMasker
    /\ NoCall

\* a caller resolves a path; tree names the filesystem state the call sees
OutsideResolve ==
    /\ pc = "idle"
    /\ \E p \in OutsideInputs, strict \in BOOLEAN :
           /\ call' = [op |-> "_resolve_path", path |-> p, strict |-> strict, tree |-> fs.tree]
           /\ pc' = "done"
           /\ ret' = resolve_path(p, strict)
    /\ UNCHANGED <<cfgVars, walkVars, fsTouched, response>>

\* the filesystem changes outside the sandbox: /x/a is created or removed
OutsideChanged ==
    /\ pc \in {"idle", "done"}
    /\ fs' = [tree |-> IF fs.tree = "FS0" THEN "FS2" ELSE "FS0"]
    /\ UNCHANGED <<cwd, allowed_paths, exclude_paths, SHOW_HIDDEN, look_for, enabled, mode,
                   masked_map, reversed_map, pc, call, walkVars, fsTouched, ret, response>>

\* the caller repeats its request after the change, keeping the earlier outcome
OutsideResolveAgain ==
    /\ pc = "done"
    /\ call.op = "_resolve_path"
    /\ "earlier" \notin DOMAIN call
    /\ call.tree # fs.tree
    /\ call' = [op |-> "_resolve_path", path |-> call.path, strict |-> call.strict,
                tree |-> fs.tree, earlier |-> ret]
    /\ ret' = resolve_path(call.path, call.strict)
    /\ UNCHANGED <<cfgVars, walkVars, pc, fsTouched, response>>

NextOutside == OutsideResolve \/ OutsideChanged \/ OutsideResolveAgain \/ NextRequest

SpecOutside == InitOutside /\ [][NextOutside]_vars

\* the real location p lies under no allowed root
OutsideRoots(p) == \A i \in 1..Len(allowed_paths) : ~path_startswith(allowed_paths[i], p)

\* the trees FS0 and FS2 hold the same entries at and below the allowed roots
SameInside ==
    \A p \in DOMAIN FS0 \cup DOMAIN FS2 :
        (\E i \in 1..Len(allowed_paths) : AtOrUnder(p, allowed_paths[i])) =>
            p \in DOMAIN FS0 /\ p \in DOMAIN FS2 /\ FS0[p] = FS2[p]

\* C29: strict _resolve_path of an absolute path whose real location is outside
\* every allowed root raises FileNotFoundError when nothing exists at the path
\* and PermissionError when something does; so on two filesystem states that
\* hold the same entries inside the allowed roots, the same request for /x/a
\* has different outcomes.
C29_OutsideObservable ==
    /\ SameInside
    /\ (call.op = "_resolve_path" /\ pc = "done" /\ call.strict /\ call.tree = fs.tree
        /\ IsAbsolute(call.path) /\ OutsideRoots(Resolve(call.path))) =>
           /\ ret.kind = "raise"
           /\ ret.exc = IF Exists(call.path) THEN "PermissionError" ELSE "FileNotFoundError"
    /\ (call.op = "_resolve_path" /\ pc = "done" /\ call.strict /\ call.tree = fs.tree
        /\ "earlier" \in DOMAIN call /\ Resolve(call.path) = <<"/", "x", "/", "a">>) =>
           /\ ret # call.earlier
           /\ {ret.exc, call.earlier.exc} = {"PermissionError", "FileNotFoundError"}

\* the request for /x/a was answered "not found" before the file was created
\* outside the sandbox and "access denied" after
C29_Witness ==
    /\ call.op = "_resolve_path"
    /\ pc = "done"
    /\ call.strict
    /\ call.path = <<"/", "x", "/", "a">>
    /\ "earlier" \in DOMAIN call
    /\ fs.tree = "FS2"
    /\ call.tree = "FS2"
    /\ call.earlier.exc = "FileNotFoundError"
    /\ ret.kind = "raise"
    /\ ret.exc = "PermissionError"

=============================================================================
